---- MODULE Spec2Model ----
\* TPRC client portal (src/server.py): the CRM adapter's association-label
\* operations, the candidate and job-order listings, the auth gateway, the
\* status mapping, the record mappers, uploads, scorecards, the
\* company-details route, the CRM request primitive and its timeouts, and
\* concurrent label updates, as state machines over an abstract CRM.
EXTENDS Integers, Sequences, FiniteSets, TLC

\* ------------------------------------------------------------------ bounds

\* Application objects associated (or associable) with the one job order.
NumApps == 2

\* ------------------------------------------------------------- identifiers

\* CRM object ids.  Applications and contacts are distinct entities with
\* distinct ids (server.py:399-410).
AppId(i) == <<"app", i>>
ContactId(i) == <<"contact", i>>
Apps == {AppId(i) : i \in 1..NumApps}
NoApp == AppId(0)
NoContact == ContactId(0)
\* contact ids a caller may pass: every contact, and an id no contact has
CandidateIds == {ContactId(i) : i \in 0..NumApps}

\* Association labels of the tenant (server.py:377, 2179, 2219, 2684).
Recommended == "Recommended"
Selected == "Selected"
Rejected == "Rejected"
Labels == {Recommended, Selected, Rejected}
TerminalLabels == {Selected, Rejected}

VARIABLES
    linked,     \* CRM: applications that have an association edge to the job order
    labels,     \* CRM: application -> set of labels on that edge
    last,       \* the portal operation being answered and what it did
    prevUpdate, \* the edge and label of the latest operation, if a label update
    now,        \* the clock, in days
    token,      \* the token most recently issued by login or refresh
    grant,      \* the account (user_id, company_id) the latest login authenticated
    resp,       \* the latest response of the auth gateway or of login
    appProps,   \* the property bag handed to determine_application_status
    appStatus,  \* what it returned for that bag
    crmStatus,  \* CRM: application -> its application_status property
    act,        \* the latest candidate-action request and its answer
    provisions,   \* CRM: provision records of the company in the category
    disk,   \* files in the upload folder
    crmFiles,   \* files sent to the CRM file manager
    upl,  \* the latest upload request and its answer
    outbound,   \* HTTP requests the client has sent to the CRM
    call,  \* the latest make_request invocation and how it ended
    mapped,  \* the latest record-mapper call: its input bag and what it returned
    companyEdges,   \* CRM: job orders with an association edge to the company
    jobBag,   \* CRM: job order -> its denormalized company properties
    companyName,   \* CRM: the name property of the company
    listing,  \* the latest get_job_orders_for_company call and its result
    appIds,   \* CRM: ids that name an application object
    contactIds,   \* CRM: ids that name a contact
    detail,  \* the latest GET /candidates/{id} request and its answer
    assessments,   \* CRM: (candidate, company) -> number of assessment records with that key
    score,  \* the latest scorecard request and its answer
    wait,  \* the outbound CRM call a handler is blocked on, and how long it has waited
    edge,   \* CRM: the association edge of one application and the job order
    proc,  \* the concurrent update_association_label calls on that edge
    companyResp   \* the latest GET /companies/{company_id} request and its answer

crmVars == <<linked, labels>>
portalVars == <<linked, labels, last, prevUpdate>>
authVars == <<now, token, grant, resp>>
statusVars == <<appProps, appStatus>>
actionVars == <<crmStatus, act>>
uploadVars == <<provisions, disk, crmFiles, upl>>
clientVars == <<outbound, call>>
mapperVars == <<mapped>>
jobVars == <<companyEdges, jobBag, companyName, listing>>
candidateVars == <<appIds, contactIds, detail>>
scoreVars == <<assessments, score>>
waitVars == <<wait>>
raceVars == <<edge, proc>>
companyVars == <<companyResp>>
vars ==
    <<linked, labels, last, prevUpdate, now, token, grant, resp,
      appProps, appStatus, crmStatus, act, provisions, disk, crmFiles,
      upl, outbound, call, mapped, companyEdges, jobBag, companyName,
      listing, appIds, contactIds, detail, assessments, score, wait,
      edge, proc, companyResp>>
\* what the operations of one component leave alone
notPortalVars == <<authVars, statusVars, actionVars, uploadVars, clientVars, mapperVars, jobVars, candidateVars, scoreVars, waitVars, raceVars, companyVars>>
notAuthVars == <<portalVars, statusVars, actionVars, uploadVars, clientVars, mapperVars, jobVars, candidateVars, scoreVars, waitVars, raceVars, companyVars>>
notStatusVars == <<portalVars, authVars, actionVars, uploadVars, clientVars, mapperVars, jobVars, candidateVars, scoreVars, waitVars, raceVars, companyVars>>
notActionVars == <<portalVars, authVars, statusVars, uploadVars, clientVars, mapperVars, jobVars, candidateVars, scoreVars, waitVars, raceVars, companyVars>>
notUploadVars == <<portalVars, authVars, statusVars, actionVars, clientVars, mapperVars, jobVars, candidateVars, scoreVars, waitVars, raceVars, companyVars>>
notClientVars == <<portalVars, authVars, statusVars, actionVars, uploadVars, mapperVars, jobVars, candidateVars, scoreVars, waitVars, raceVars, companyVars>>
notMapperVars == <<portalVars, authVars, statusVars, actionVars, clientVars, uploadVars, jobVars, candidateVars, scoreVars, waitVars, raceVars, companyVars>>
notJobVars == <<portalVars, authVars, statusVars, actionVars, clientVars, mapperVars, uploadVars, candidateVars, scoreVars, waitVars, raceVars, companyVars>>
notCandidateVars == <<portalVars, authVars, statusVars, actionVars, clientVars, jobVars, mapperVars, uploadVars, scoreVars, waitVars, raceVars, companyVars>>
notScoreVars == <<portalVars, authVars, statusVars, actionVars, candidateVars, clientVars, jobVars, mapperVars, uploadVars, waitVars, raceVars, companyVars>>
notScoreActionVars == <<portalVars, authVars, statusVars, candidateVars, clientVars, jobVars, mapperVars, uploadVars, waitVars, raceVars, companyVars>>
notWaitVars == <<portalVars, authVars, statusVars, actionVars, candidateVars, clientVars, jobVars, mapperVars, scoreVars, uploadVars, raceVars, companyVars>>
notRaceVars == <<portalVars, authVars, statusVars, actionVars, candidateVars, clientVars, jobVars, mapperVars, scoreVars, uploadVars, waitVars, companyVars>>
notCompanyVars == <<portalVars, authVars, statusVars, actionVars, candidateVars, clientVars, jobVars, mapperVars, raceVars, scoreVars, uploadVars, waitVars>>
notCompanyClientVars == <<portalVars, authVars, statusVars, actionVars, candidateVars, jobVars, mapperVars, raceVars, scoreVars, uploadVars, waitVars>>

\* Applications that have an associated contact.  Application 1 stands for an
\* application without one: its contact-association list is empty.
AppsWithContact == {a \in Apps : a[2] # 1}

\* The contact associated with an application (server.py:669-674, 400-405):
\* the first result of the application's contact associations.
ContactOf(a) == IF a \in AppsWithContact THEN ContactId(a[2]) ELSE NoContact

\* What the model records of one operation: the application addressed, the
\* label asked for, whether the primary call returned normally,
\* association_updated, the CRM write methods issued by the client method and
\* by the whole handler, the HTTP status, and for a candidate listing the
\* candidates returned, the path that produced them and the CRM outcomes the
\* listing met; and the parts the error message of a failure response is
\* built from.

\* The parts of an error message: text fixed in the source, the body of the
\* CRM's reply (response.text), and the text of an exception (str(e)).
Fixed(text) == <<"fixed", text>>
CrmReplyText == <<"crm reply", "response.text">>
ExceptionText == <<"exception", "str(e)">>

NoOp ==
    [op |-> "none", app |-> NoApp, label |-> "", ok |-> FALSE, updated |-> FALSE,
     writes |-> {}, handlerWrites |-> {}, status |-> 0, cands |-> {},
     path |-> "none", error |-> << >>,
     listEnv |-> [assocOk |-> TRUE, failApps |-> {}, searchOk |-> TRUE,
                  hits |-> {}, emptyList |-> TRUE]]

\* No label update was the latest operation.
NoUpdate == [app |-> NoApp, label |-> ""]

PortalIdle ==
    /\ last = NoOp
    /\ prevUpdate = NoUpdate

\* ------------------------------------------------- update_association_label

\* Outcomes of the CRM calls of one update_association_label invocation:
\*   listOk   - GET job order -> applications (server.py:656) answered
\*   failApps - applications whose detail or contact lookup raised (666-680)
\*   edgeOk   - GET application -> job orders (server.py:689) answered
\*   deleted  - the DELETE (server.py:727) removed the edge at the CRM
\*   putOk    - the batch/create PUT (server.py:743) succeeded
\* At most one call fails per invocation; a DELETE that did not reach the CRM
\* leaves the edge in place.
UpdateEnv(listOk, failApps, edgeOk, deleted, putOk) ==
    [listOk |-> listOk, failApps |-> failApps, edgeOk |-> edgeOk,
     deleted |-> deleted, putOk |-> putOk]

UpdateEnvs ==
    {UpdateEnv(TRUE, {}, TRUE, TRUE, TRUE),
     UpdateEnv(TRUE, {}, TRUE, TRUE, FALSE),
     UpdateEnv(TRUE, {}, TRUE, FALSE, FALSE),
     UpdateEnv(FALSE, {}, TRUE, TRUE, TRUE),
     UpdateEnv(TRUE, {}, FALSE, TRUE, TRUE),
     UpdateEnv(TRUE, Apps, TRUE, TRUE, TRUE)}

\* server.py:662-680: the application of the job order whose contact is the
\* candidate.  Applications are visited in CRM order (ascending id here).
MatchingApps(cand, env) ==
    {a \in linked : a \notin env.failApps /\ a \in AppsWithContact
                    /\ ContactOf(a) = cand}

FindApplication(cand, env) ==
    IF MatchingApps(cand, env) = {} THEN NoApp
    ELSE CHOOSE a \in MatchingApps(cand, env) :
            \A b \in MatchingApps(cand, env) : a[2] <= b[2]

\* server.py:707: the labels read from the edge.
ExistingLabels(app) == labels[app]

\* A variant that recreates the edge with the new label alone.
AllLabelsReplaced(existing, label) == {label}

\* server.py:736: all_labels = list(set(existing_labels + [label]))
AllLabels(existing, label) == existing \cup {label}

\* A variant of the check of line 712 that always rewrites the edge; the
\* idempotence property must tell it from the code's.
NeedsUpdateAlways(existing, label) == TRUE

\* server.py:712: the label is added only when the edge does not carry it.
NeedsUpdate(existing, label) == label \notin existing

\* server.py:651-767.  The result: raised (an exception left the method),
\* updated (association_updated), the CRM writes issued and the CRM afterwards.
UpdateAssociationLabel(cand, label, env) ==
    LET app == FindApplication(cand, env)
        existing == ExistingLabels(app)
        unchanged == [linked |-> linked, labels |-> labels]
    IN  IF ~env.listOk \/ app = NoApp \/ ~env.edgeOk
        THEN [raised |-> TRUE, updated |-> FALSE, app |-> app, writes |-> {},
              crm |-> unchanged]
        ELSE IF ~NeedsUpdate(existing, label)
        THEN [raised |-> FALSE, updated |-> FALSE, app |-> app, writes |-> {},
              crm |-> unchanged]
        ELSE IF ~env.putOk
        THEN [raised |-> TRUE, updated |-> FALSE, app |-> app,
              writes |-> {"DELETE", "PUT"},
              crm |-> IF env.deleted
                      THEN [linked |-> linked \ {app},
                            labels |-> [labels EXCEPT ![app] = {}]]
                      ELSE unchanged]
        ELSE [raised |-> FALSE, updated |-> TRUE, app |-> app,
              writes |-> {"DELETE", "PUT"},
              crm |-> [linked |-> linked \cup {app},
                       labels |-> [labels EXCEPT
                                     ![app] = AllLabels(existing, label)]]]

\* server.py:1274-1291: create_activity_record issues one POST and swallows
\* its failure.
ActivityWrites == {"POST"}

\* server.py:2392-2402: the handler logs the activity after every call of the
\* client method that returned.
RouteActivityWrites(r) == IF r.raised THEN {} ELSE ActivityWrites

\* POST /api/hubspot/association-label/update (server.py:2374-2412) with a
\* body that lacks candidateId, jobOrderId, action or label.
RouteUpdateLabelIncomplete ==
    /\ last = NoOp
    /\ prevUpdate' = NoUpdate
    /\ last' = [NoOp EXCEPT !.op = "route_update", !.status = 400,
                  !.error = <<Fixed("Missing required parameters")>>]
    /\ UNCHANGED crmVars
    /\ UNCHANGED notPortalVars

\* server.py:2410-2412 with server.py:192, 765-767: the error body of the
\* handler carries str(e) of the exception the client method re-raised.
UpdateLabelError ==
    <<Fixed("Failed to update association label: "), ExceptionText>>

\* POST /api/hubspot/association-label/update (server.py:2374-2412), for a
\* request that passed require_auth and carries all four fields: the call of
\* HubSpotClient.update_association_label and the activity record.
RouteUpdateLabel ==
    /\ last = NoOp
    /\ \E cand \in CandidateIds, label \in Labels, env \in UpdateEnvs :
        \E r \in {UpdateAssociationLabel(cand, label, env)} :
            /\ prevUpdate' = IF r.raised \/ r.app = NoApp THEN NoUpdate
                              ELSE [app |-> r.app, label |-> label]
            /\ linked' = r.crm.linked
            /\ labels' = r.crm.labels
            /\ last' = [NoOp EXCEPT !.op = "route_update", !.app = r.app,
                          !.label = label, !.ok = ~r.raised,
                          !.updated = r.updated, !.writes = r.writes,
                          !.handlerWrites = r.writes \cup RouteActivityWrites(r),
                          !.status = IF r.raised THEN 500 ELSE 200,
                          !.error = IF r.raised THEN UpdateLabelError ELSE << >>]
            /\ UNCHANGED notPortalVars

\* ------------------------------------------------- approve / reject routes

\* The CRM's answer to PUT .../associations/2-44956344/{job}/{label}
\* (server.py:2179-2185): the association is created with that label, or the
\* labelled type is added to the existing edge.
CrmAddLabel(app, label) ==
    [linked |-> linked \cup {app},
     labels |-> [labels EXCEPT ![app] = labels[app] \cup {label}]]

\* server.py:2164-2241: approve (label Selected) and reject (label Rejected),
\* for a request that passed require_auth; candidate_id is the application id.
\* The PUT is "ok" (the CRM answered 200, 201 or 204), "refused" (it
\* answered another status) or "unreachable" (requests.put raised).
PutOutcomes == {"ok", "refused", "unreachable"}

\* server.py:2187-2201, 2227-2241: the error body carries str(e); for a
\* refused PUT e is the handler's own exception built from response.text.
DecisionError(op, put) ==
    IF put = "ok" THEN << >>
    ELSE IF put = "refused"
    THEN <<Fixed(IF op = "approve" THEN "Failed to approve candidate: "
                 ELSE "Failed to reject candidate: "),
           Fixed("Failed to update association: "), CrmReplyText>>
    ELSE <<Fixed(IF op = "approve" THEN "Failed to approve candidate: "
                 ELSE "Failed to reject candidate: "),
           ExceptionText>>

DecisionRoute(op, label) ==
    /\ last = NoOp
    /\ prevUpdate' = NoUpdate
    /\ \E app \in Apps, put \in PutOutcomes :
       \E putOk \in {put = "ok"} :
       \E crm \in {IF putOk THEN CrmAddLabel(app, label)
                   ELSE [linked |-> linked, labels |-> labels]} :
           /\ linked' = crm.linked
           /\ labels' = crm.labels
           /\ last' = [NoOp EXCEPT !.op = op, !.app = app, !.label = label,
                         !.ok = putOk, !.updated = putOk, !.handlerWrites = {"PUT"},
                         !.status = IF putOk THEN 200 ELSE 500,
                         !.error = DecisionError(op, put)]
           /\ UNCHANGED notPortalVars

ApproveRoute == DecisionRoute("approve", Selected)

RejectRoute == DecisionRoute("reject", Rejected)

\* server.py:2684: the label of a custom-object action.
ActionLabel(action) == IF action = "approve" THEN Selected ELSE Rejected

\* Outcomes of one custom-object action:
\*   patchOk  - the PATCH of the application answered 200
\*   hasJob   - the body carries jobOrderId
\*   labelOk  - the label PUT answered 200, 201 or 204 (a failure is logged)
\*   workflow - "none": the body carries no workflow_id; otherwise one
\*              enrollment POST, which is "answered" (any status, logged) or
\*              "raised" (transport failure, caught by the handler's except)
ActionEnv(patchOk, hasJob, labelOk, workflow) ==
    [patchOk |-> patchOk, hasJob |-> hasJob, labelOk |-> labelOk,
     workflow |-> workflow]

WorkflowOutcomes == {"none", "answered", "raised"}

ActionEnvs ==
    {ActionEnv(FALSE, TRUE, TRUE, "none")}
    \cup {ActionEnv(TRUE, FALSE, TRUE, w) : w \in WorkflowOutcomes}
    \cup {ActionEnv(TRUE, TRUE, l, w) : l \in BOOLEAN, w \in WorkflowOutcomes}

\* POST /api/hubspot/objects/2-44963172/{id}/actions (server.py:2588-2738).
CustomObjectAction ==
    /\ last = NoOp
    /\ prevUpdate' = NoUpdate
    /\ \E app \in Apps, action \in {"approve", "reject", "interview"},
          env \in ActionEnvs :
           \E labelled \in {env.patchOk /\ env.hasJob
                             /\ action \in {"approve", "reject"}} :
           \E added \in {labelled /\ env.labelOk} :
           \E crm \in {IF added THEN CrmAddLabel(app, ActionLabel(action))
                       ELSE [linked |-> linked, labels |-> labels]} :
               /\ linked' = crm.linked
               /\ labels' = crm.labels
               /\ last' = [NoOp EXCEPT !.op = "custom_action", !.app = app,
                             !.label = IF labelled THEN ActionLabel(action) ELSE "",
                             !.ok = env.patchOk, !.updated = added,
                             !.handlerWrites = {"PATCH"}
                                  \cup (IF labelled THEN {"PUT"} ELSE {})
                                  \cup (IF env.patchOk /\ env.workflow # "none"
                                        THEN {"POST"} ELSE {}),
                             !.status = IF env.patchOk /\ env.workflow # "raised"
                                        THEN 200 ELSE 500,
                             !.error = IF ~env.patchOk
                                       THEN <<Fixed("Failed to update application")>>
                                       ELSE IF env.workflow = "raised"
                                       THEN <<Fixed("Failed to process action")>>
                                       ELSE << >>]
               /\ UNCHANGED notPortalVars

\* ------------------------------------------- get_candidates_for_job_order

\* Outcomes of the CRM calls of one listing:
\*   assocOk  - GET job order -> applications (server.py:366) answered
\*   failApps - applications whose detail, contact-association or contact
\*              fetch raised (server.py:396-410)
\*   searchOk - the fallback search (server.py:480) answered
\*   hits     - the applications whose job_order_id property names the job
\*   emptyList - how the CRM answers the contact-association GET of an
\*              application without a contact: with "results": [] (TRUE),
\*              or with no usable first result, that is no "results" key
\*              or no toObjectId (FALSE) (server.py:400-405)
ListEnv(assocOk, failApps, searchOk, hits, emptyList) ==
    [assocOk |-> assocOk, failApps |-> failApps, searchOk |-> searchOk,
     hits |-> hits, emptyList |-> emptyList]

ListEnvs ==
    {ListEnv(TRUE, f, TRUE, {}, e) : f \in SUBSET Apps, e \in BOOLEAN}
    \cup {ListEnv(FALSE, {}, FALSE, {}, TRUE)}
    \cup {ListEnv(FALSE, {}, TRUE, h, TRUE) : h \in SUBSET Apps}

\* server.py:376-379: some association type of the edge is labelled
\* "recommended", compared in lower case.
HasRecommendedLabel(a) == Recommended \in labels[a]

\* server.py:370-386
RecommendedApplications == {a \in linked : HasRecommendedLabel(a)}

\* server.py:396-405: the resolution of an application raises when one of its
\* fetches raises, and when the contact-association list is empty (IndexError
\* at server.py:404-405).
ResolutionRaises(a, env) ==
    \/ a \in env.failApps
    \/ a \notin AppsWithContact /\ env.emptyList

\* A variant in which one failing resolution aborts the whole listing.
ResolvedCandidatesAllOrNothing(env) ==
    IF \E a \in RecommendedApplications : ResolutionRaises(a, env) THEN {}
    ELSE {[id |-> (IF a \in AppsWithContact THEN ContactOf(a) ELSE a),
           application_id |-> a] : a \in RecommendedApplications}

\* server.py:393-447: an application whose resolution raises is skipped.  With
\* a contact the candidate is the formatted contact (format_candidate,
\* server.py:1033-1039), whose id is the contact's; without one it is the
\* formatted application (format_candidate_from_application,
\* server.py:573-574), whose id is the application's.  application_id is
\* added in both cases (server.py:421, 438).
ResolvedCandidates(env) ==
    {[id |-> (IF a \in AppsWithContact THEN ContactOf(a) ELSE a),
      application_id |-> a] :
        a \in {b \in RecommendedApplications : ~ResolutionRaises(b, env)}}

\* server.py:483-493: every application the search returns, unfiltered
\* (format_candidate_from_application, server.py:573-574).
SearchCandidates(env) ==
    {[id |-> a, application_id |-> a] : a \in env.hits}

\* server.py:358-504
GetCandidatesForJobOrder(env) ==
    IF env.assocOk
    THEN IF ResolvedCandidates(env) # {}
         THEN [cands |-> ResolvedCandidates(env), path |-> "associations"]
         ELSE [cands |-> {}, path |-> "empty"]
    ELSE IF env.searchOk /\ SearchCandidates(env) # {}
         THEN [cands |-> SearchCandidates(env), path |-> "search"]
         ELSE [cands |-> {}, path |-> "empty"]

\* GET /api/hubspot/job-orders/{id}/candidates (server.py:2140-2161), for a
\* request that passed require_auth.
ListCandidates ==
    /\ last = NoOp
    /\ prevUpdate' = NoUpdate
    /\ \E env \in ListEnvs :
       \E r \in {GetCandidatesForJobOrder(env)} :
           /\ last' = [NoOp EXCEPT !.op = "list_candidates", !.ok = TRUE,
                         !.status = 200, !.cands = r.cands, !.path = r.path,
                         !.listEnv = env]
           /\ UNCHANGED crmVars
           /\ UNCHANGED notPortalVars

\* The response has been sent; the portal keeps nothing of the request.
Answered ==
    /\ last # NoOp
    /\ last' = NoOp
    /\ UNCHANGED <<linked, labels, prevUpdate>>
    /\ UNCHANGED notPortalVars

\* ------------------------------------------------------------ auth gateway

\* Latest day of the clock.
MaxTime == 2

\* server.py:1772, 1852, 1906: token lifetimes in days.
DayTTL == 1
RememberTTL == 30

\* server.py:31-32: the signing secret; any other key is not the portal's.
SecretKey == "app.secret_key"
OtherKey == "another key"

\* jwt.encode (server.py:1775, 1855, 1909): the payload and an HS256
\* signature, which binds the payload to the key.
Sign(payload, key) == <<payload, key>>
JwtEncode(payload, key) == [payload |-> payload, sig |-> Sign(payload, key)]

NoToken == [payload |-> [exp |-> 0], sig |-> Sign([exp |-> 0], "no key")]
NoGrant == [user_id |-> "", company_id |-> ""]

\* The Authorization header of a request: absent, one word with no second
\* space-separated part, a second part that is no JWT, or a JWT.
Header(kind, t) == [kind |-> kind, token |-> t]

\* Tokens a client can present besides the one it was issued: that token with
\* its company_id rewritten (signature kept), that token signed with another
\* key, and tokens signed with the portal's key that lack a claim.
Tampered(t) ==
    [payload |-> [user_id |-> "intruder", company_id |-> "other_company",
                  exp |-> t.payload.exp],
     sig |-> t.sig]
Forged(t) == JwtEncode(t.payload, OtherKey)
LacksCompany == JwtEncode([user_id |-> "intruder", exp |-> MaxTime + DayTTL], SecretKey)
LacksUser == JwtEncode([company_id |-> "other_company", exp |-> MaxTime + DayTTL], SecretKey)

Headers ==
    {Header("absent", NoToken), Header("bare", NoToken), Header("garbage", NoToken),
     Header("bearer", LacksCompany), Header("bearer", LacksUser)}
    \cup (IF token = NoToken THEN {}
          ELSE {Header("bearer", token), Header("bearer", Tampered(token)),
                Header("bearer", Forged(token))})

\* A variant of the decoder that never checks exp.
ExpiredNever(t) == FALSE

\* jwt.decode's expiry check: the token is expired once the clock reaches exp.
Expired(t) == "exp" \in DOMAIN t.payload /\ t.payload.exp <= now

\* jwt.decode's signature check against app.secret_key (server.py:1680).
SignatureValid(t) == t.sig = Sign(t.payload, SecretKey)

Deny(status, error) ==
    [pass |-> FALSE, status |-> status, error |-> error,
     user_id |-> "", company_id |-> ""]

\* require_auth (server.py:1669-1696): what the decorator decides for a
\* header, and the identity it attaches to the request when it lets it pass.
RequireAuth(h) ==
    IF h.kind = "absent" THEN Deny(401, "No authorization header")
    ELSE IF h.kind = "bare" THEN Deny(401, "Authentication failed")
    ELSE IF h.kind = "garbage" THEN Deny(401, "Invalid token")
    ELSE IF ~SignatureValid(h.token) THEN Deny(401, "Invalid token")
    ELSE IF Expired(h.token) THEN Deny(401, "Token expired")
    ELSE IF ~({"user_id", "company_id"} \subseteq DOMAIN h.token.payload)
    THEN Deny(401, "Authentication failed")
    ELSE [pass |-> TRUE, status |-> 200, error |-> "",
          user_id |-> h.token.payload.user_id,
          company_id |-> h.token.payload.company_id]

\* The registered routes (server.py:132-3015) other than login and refresh,
\* which are modelled by their own actions.  auth: the handler is wrapped by
\* @require_auth; crm: the handler calls the CRM.
Route(name, auth, crm) == [name |-> name, auth |-> auth, crm |-> crm]

Routes ==
    {Route("health_check", FALSE, FALSE),
     Route("index", FALSE, FALSE),
     Route("static_files", FALSE, FALSE),
     Route("reset_password", FALSE, FALSE),
     Route("logout", TRUE, FALSE),
     Route("get_user_profile", TRUE, TRUE),
     Route("get_company_profile", TRUE, TRUE),
     Route("get_company_details", TRUE, TRUE),
     Route("get_job_orders", TRUE, TRUE),
     Route("get_job_order", TRUE, TRUE),
     Route("get_candidates_for_job", TRUE, TRUE),
     Route("approve_candidate", TRUE, TRUE),
     Route("reject_candidate", TRUE, TRUE),
     Route("get_candidate", TRUE, TRUE),
     Route("update_association_label", TRUE, TRUE),
     Route("get_dashboard_stats", TRUE, TRUE),
     Route("get_recent_activity", TRUE, TRUE),
     Route("upload_document", TRUE, TRUE),
     Route("get_company_documents", TRUE, TRUE),
     Route("save_additional_info", TRUE, TRUE),
     Route("get_candidate_scorecard", TRUE, TRUE),
     Route("save_candidate_scorecard", TRUE, TRUE),
     Route("submit_custom_object_action", TRUE, TRUE),
     Route("submit_candidate_action", TRUE, TRUE),
     Route("get_post_selection_pipeline", TRUE, TRUE),
     Route("get_candidate_pipeline_details", TRUE, TRUE),
     Route("get_company_provisions", TRUE, TRUE),
     Route("upload_provision_documents", TRUE, TRUE),
     Route("save_provision_questions", TRUE, TRUE),
     Route("submit_support_ticket", TRUE, TRUE),
     Route("get_authorized_users", TRUE, FALSE),
     Route("add_authorized_user", TRUE, FALSE),
     Route("remove_authorized_user", TRUE, FALSE)}

\* A variant of the route table in which one CRM-backed route has lost its
\* decorator.
RouteLeftOpen(route) == route.auth /\ route.name # "get_company_details"

\* Whether the gateway guards a route: its @require_auth decorator.
RouteRequiresAuth(route) == route.auth

\* A response: the route, the header and the clock of the request, the HTTP
\* status and error text, whether the handler body ran, whether it called the
\* CRM, the identity attached to the request, and the token issued.
Response(route, h, status, error, ran, crm, user, company, issued) ==
    [route |-> route, header |-> h, at |-> now, status |-> status,
     error |-> error, handlerRan |-> ran, crmCalled |-> crm,
     user_id |-> user, company_id |-> company, issued |-> issued,
     email |-> "", password |-> "", allowList |-> {}]

NoResponse ==
    [route |-> "none", header |-> Header("absent", NoToken), at |-> 0,
     status |-> 0, error |-> "", handlerRan |-> FALSE, crmCalled |-> FALSE,
     user_id |-> "", company_id |-> "", issued |-> NoToken,
     email |-> "", password |-> "", allowList |-> {}]

\* A request to a route: the gateway decides, then the handler runs.  The
\* handler's own outcome is not modelled here: a handler that ran answers 200.
Request ==
    /\ resp = NoResponse
    /\ \E route \in Routes, h \in Headers :
       \E a \in {RequireAuth(h)} :
           /\ resp' = IF RouteRequiresAuth(route) /\ ~a.pass
                      THEN Response(route.name, h, a.status, a.error, FALSE, FALSE,
                                    "", "", NoToken)
                      ELSE IF RouteRequiresAuth(route)
                      THEN Response(route.name, h, 200, "", TRUE, route.crm,
                                    a.user_id, a.company_id, NoToken)
                      ELSE Response(route.name, h, 200, "", TRUE, route.crm,
                                    "", "", NoToken)
           /\ UNCHANGED <<now, token, grant>>
           /\ UNCHANGED notAuthVars

\* server.py:1903-1907: the payload refresh signs.
RefreshPayload(user, company) ==
    [user_id |-> user, company_id |-> company, exp |-> now + DayTTL]

\* POST /api/auth/refresh (server.py:1898-1916)
RefreshToken ==
    /\ resp = NoResponse
    /\ \E h \in Headers :
       \E a \in {RequireAuth(h)} :
       \E t \in {IF a.pass
                 THEN JwtEncode(RefreshPayload(a.user_id, a.company_id), SecretKey)
                 ELSE NoToken} :
           /\ resp' = IF a.pass
                      THEN Response("refresh_token", h, 200, "", TRUE, FALSE,
                                    a.user_id, a.company_id, t)
                      ELSE Response("refresh_token", h, a.status, a.error, FALSE,
                                    FALSE, "", "", NoToken)
           /\ token' = IF a.pass THEN t ELSE token
           /\ UNCHANGED <<now, grant>>
           /\ UNCHANGED notAuthVars

\* ------------------------------------------------------------------ login

\* server.py:41: the static allow-list.
Tim == "tim.schibli@tprc.com.au"
ALLOWED_EMAILS == {Tim}

\* Other addresses a login may carry: a client's and a stranger's.
Client == "client@example.com"
Stranger == "stranger@example.com"
Emails == {"", Tim, Client, Stranger}

\* server.py:1752-1760: demo_users.
DemoEmails == {Tim}
DemoPassword(email) == "tprc2025"
DemoAccount(email) == [user_id |-> "tim_schibli_001", company_id |-> "503464912"]

Passwords == {"", "tprc2025", "guess"}

\* The allow-list store as login finds it: DATABASE_URL unset; set but the
\* connection or query fails; or the active rows of authorized_users.
Db(configured, up, active) ==
    [configured |-> configured, up |-> up, active |-> active]

DbEnvs ==
    {Db(FALSE, FALSE, {}), Db(TRUE, FALSE, {}), Db(TRUE, TRUE, {}),
     Db(TRUE, TRUE, {Client}), Db(TRUE, TRUE, {Tim, Client})}

\* get_authorized_emails (server.py:85-102)
GetAuthorizedEmails(db) ==
    IF ~db.configured THEN ALLOWED_EMAILS
    ELSE IF ~db.up THEN ALLOWED_EMAILS
    ELSE IF db.active # {} THEN db.active
    ELSE ALLOWED_EMAILS

\* What the CRM holds for an email (server.py:1795-1840): no contact (or the
\* search failed, which get_contact_by_email turns into None); a contact
\* without associatedcompanyid; a contact whose company cannot be fetched; a
\* contact with a company.
CrmOutcomes == {"no_contact", "no_company", "company_unreachable", "contact"}

CrmAccount(email) ==
    IF email = Tim
    THEN [user_id |-> "contact_of_tim", company_id |-> "company_of_tim"]
    ELSE IF email = Client
    THEN [user_id |-> "contact_of_client", company_id |-> "company_of_client"]
    ELSE [user_id |-> "contact_of_stranger", company_id |-> "company_of_stranger"]

\* A variant of the payload that puts the user's id in the company claim.
LoginPayloadOneId(account, email, remember) ==
    [user_id |-> account.user_id, company_id |-> account.user_id,
     email |-> email,
     exp |-> now + (IF remember THEN RememberTTL ELSE DayTTL)]

\* server.py:1767-1773, 1843-1853: the payload login signs.
LoginPayload(account, email, remember) ==
    [user_id |-> account.user_id, company_id |-> account.company_id,
     email |-> email,
     exp |-> now + (IF remember THEN RememberTTL ELSE DayTTL)]

\* A variant of login without the allow-list check.
EmailAllowedAny(email, db) == TRUE

\* server.py:1747: the allow-list check.
EmailAllowed(email, db) == email \in GetAuthorizedEmails(db)

\* server.py:1763: the demo-user check.
IsDemoLogin(email, password) ==
    email \in DemoEmails /\ password = DemoPassword(email)

LoginOutcome(status, error, crm, account, issued) ==
    [status |-> status, error |-> error, crmCalled |-> crm,
     account |-> account, issued |-> issued]

\* login (server.py:1734-1888) for a request with a JSON body.
Login(email, password, remember, db, crm) ==
    IF email = "" \/ password = ""
    THEN LoginOutcome(400, "Email and password required", FALSE, NoGrant, NoToken)
    ELSE IF ~EmailAllowed(email, db)
    THEN LoginOutcome(403, "Access denied. Contact TPRC for portal access.",
                      FALSE, NoGrant, NoToken)
    ELSE IF IsDemoLogin(email, password)
    THEN LoginOutcome(200, "", FALSE, DemoAccount(email),
                      JwtEncode(LoginPayload(DemoAccount(email), email, remember),
                                SecretKey))
    ELSE IF crm = "no_contact"
    THEN LoginOutcome(401, "Invalid credentials - Contact not found in HubSpot",
                      TRUE, NoGrant, NoToken)
    ELSE IF crm = "no_company"
    THEN LoginOutcome(401, "No company associated with this account", TRUE,
                      NoGrant, NoToken)
    ELSE IF crm = "company_unreachable"
    THEN LoginOutcome(401, "Unable to access company information", TRUE,
                      NoGrant, NoToken)
    ELSE LoginOutcome(200, "", TRUE, CrmAccount(email),
                      JwtEncode(LoginPayload(CrmAccount(email), email, remember),
                                SecretKey))

\* POST /api/auth/login
LoginRoute ==
    /\ resp = NoResponse
    /\ \E email \in Emails, password \in Passwords, remember \in BOOLEAN,
          db \in DbEnvs, crm \in CrmOutcomes :
       \E r \in {Login(email, password, remember, db, crm)} :
           /\ resp' = [Response("login", Header("absent", NoToken), r.status,
                                r.error, TRUE, r.crmCalled, "", "", r.issued)
                       EXCEPT !.email = email, !.password = password,
                              !.allowList = GetAuthorizedEmails(db)]
           /\ token' = IF r.issued = NoToken THEN token ELSE r.issued
           /\ grant' = IF r.issued = NoToken THEN grant ELSE r.account
           /\ UNCHANGED now
           /\ UNCHANGED notAuthVars

\* POST /api/auth/login without a JSON body: request.get_json() gives no
\* dictionary and the handler's except answers 500 (server.py:1886-1888).
LoginNoBody ==
    /\ resp = NoResponse
    /\ resp' = Response("login", Header("absent", NoToken), 500, "Login failed",
                        TRUE, FALSE, "", "", NoToken)
    /\ UNCHANGED <<now, token, grant>>
    /\ UNCHANGED notAuthVars

\* The response has been sent and the request context is discarded.
Respond ==
    /\ resp # NoResponse
    /\ resp' = NoResponse
    /\ UNCHANGED <<now, token, grant>>
    /\ UNCHANGED notAuthVars

\* A day passes.
Tick ==
    /\ resp = NoResponse
    /\ now < MaxTime
    /\ now' = now + 1
    /\ UNCHANGED <<token, grant, resp>>
    /\ UNCHANGED notAuthVars

\* ------------------------------------------- determine_application_status

\* A property the CRM record does not carry, and one it carries as null.
Missing == "<missing>"
Null == "<null>"

\* dict.get(key, default): the default stands in for a missing key only.
Get(props, key, default) == IF props[key] = Missing THEN default ELSE props[key]

\* Python truthiness of dict.get(key): a missing, null or empty value is false.
Truthy(v) == v \notin {Missing, Null, ""}

\* server.py:775-780: the pipeline stages the code maps.
ActiveStages ==
    {"new", "open", "qualified", "presentation_scheduled",
     "decision_maker_bought-in"}
InactiveStages == {"closed_won", "closed_lost"}
IssueStages == {"appointment_scheduled", "qualified_to_buy"}

\* server.py:788-793: the lifecycle stages the code maps.
ActiveLifecycles == {"lead", "marketingqualifiedlead", "salesqualifiedlead"}
InactiveLifecycles == {"customer", "evangelist"}
IssueLifecycles == {"opportunity"}

\* server.py:783-784: the explicit status property, when present, is returned.
ExplicitStatus(props) == props.application_status

\* A variant that consults the explicit status property before the pipeline
\* stage.
DetermineStatusFirst(props) ==
    LET pipeline_stage == Get(props, "hs_pipeline_stage", "")
        lifecycle_stage == Get(props, "lifecyclestage", "")
    IN  IF Truthy(props.application_status) THEN ExplicitStatus(props)
        ELSE IF pipeline_stage \in ActiveStages THEN "Active"
        ELSE IF pipeline_stage \in InactiveStages THEN "Inactive"
        ELSE IF pipeline_stage \in IssueStages THEN "Issues"
        ELSE IF lifecycle_stage \in ActiveLifecycles THEN "Active"
        ELSE IF lifecycle_stage \in InactiveLifecycles THEN "Inactive"
        ELSE IF lifecycle_stage \in IssueLifecycles THEN "Issues"
        ELSE "Active"

\* determine_application_status (server.py:769-796)
DetermineApplicationStatus(props) ==
    LET pipeline_stage == Get(props, "hs_pipeline_stage", "")
        lifecycle_stage == Get(props, "lifecyclestage", "")
    IN  IF pipeline_stage \in ActiveStages THEN "Active"
        ELSE IF pipeline_stage \in InactiveStages THEN "Inactive"
        ELSE IF pipeline_stage \in IssueStages THEN "Issues"
        ELSE IF Truthy(props.application_status) THEN ExplicitStatus(props)
        ELSE IF lifecycle_stage \in ActiveLifecycles THEN "Active"
        ELSE IF lifecycle_stage \in InactiveLifecycles THEN "Inactive"
        ELSE IF lifecycle_stage \in IssueLifecycles THEN "Issues"
        ELSE "Active"

\* The property bags tried: every mapped stage, the portal's own stage ids
\* (server.py:1156, 1241), the status texts the portal writes
\* (server.py:1152, 1234) and the three classes, every mapped lifecycle stage and
\* one the code does not map; each property may also be missing, null or empty.
Absent == {Missing, Null, ""}
PipelineValues ==
    ActiveStages \cup InactiveStages \cup IssueStages
    \cup {"1530375619", "1076100933"} \cup Absent
StatusValues == {"Active", "Inactive", "Issues", "Selected", "Rejected"} \cup Absent
LifecycleValues ==
    ActiveLifecycles \cup InactiveLifecycles \cup IssueLifecycles
    \cup {"subscriber"} \cup Absent

PropertyBags ==
    [hs_pipeline_stage : PipelineValues, application_status : StatusValues,
     lifecyclestage : LifecycleValues]

NotComputed == "<not computed>"

\* A call of determine_application_status on the bag.
DetermineStatus ==
    /\ appStatus = NotComputed
    /\ appStatus' = DetermineApplicationStatus(appProps)
    /\ UNCHANGED appProps
    /\ UNCHANGED notStatusVars

StatusIdle ==
    /\ appProps = [hs_pipeline_stage |-> Missing, application_status |-> Missing,
                   lifecyclestage |-> Missing]
    /\ appStatus = NotComputed

\* -------------------------------------------------- candidate actions

\* Outcomes of the CRM calls of one candidate action:
\*   assocOk    - GET job order -> candidates (server.py:1135) answered
\*   patchOk    - the PATCH of the record (server.py:1163, 1246, 1385) succeeded
\*   workflowOk - the workflow enrollment POST (server.py:1205) succeeded
\*   activityOk - the activity-record POST (server.py:1287) succeeded
FlowEnv(assocOk, patchOk, workflowOk, activityOk) ==
    [assocOk |-> assocOk, patchOk |-> patchOk, workflowOk |-> workflowOk,
     activityOk |-> activityOk]

FlowEnvs ==
    {FlowEnv(TRUE, TRUE, TRUE, TRUE), FlowEnv(FALSE, TRUE, TRUE, TRUE),
     FlowEnv(TRUE, FALSE, TRUE, TRUE), FlowEnv(TRUE, TRUE, FALSE, TRUE),
     FlowEnv(TRUE, TRUE, TRUE, FALSE), FlowEnv(TRUE, FALSE, FALSE, TRUE)}

\* What a client method did: whether it raised, whether its lookup found the
\* association, whether its PATCH reached the CRM, and the dictionary it
\* returned.
Outcome(raised, found, patched, success, triggered) ==
    [raised |-> raised, found |-> found, patched |-> patched,
     success |-> success, workflow_triggered |-> triggered]

\* trigger_workflow (server.py:1193-1223): a failed enrollment is caught and
\* reported as success False.
TriggerWorkflow(env) == env.workflowOk

\* server.py:1176-1184: the workflow call of approve_candidate is commented
\* out, so the name workflow_result read by the return statement is unbound
\* and the return raises NameError.
ApproveWorkflowResultBound == FALSE

\* approve_candidate (server.py:1130-1191)
ApproveCandidate(app, env) ==
    IF ~env.assocOk THEN Outcome(TRUE, FALSE, FALSE, FALSE, FALSE)
    ELSE IF app \notin linked THEN Outcome(TRUE, FALSE, FALSE, FALSE, FALSE)
    ELSE IF ~ApproveWorkflowResultBound
    THEN Outcome(TRUE, TRUE, env.patchOk, FALSE, FALSE)
    ELSE Outcome(FALSE, TRUE, env.patchOk, TRUE, TriggerWorkflow(env))

\* reject_candidate (server.py:1225-1272)
RejectCandidate(app, env) ==
    Outcome(FALSE, TRUE, env.patchOk, TRUE, TriggerWorkflow(env))

\* reserve_candidate (server.py:1369-1408): the PATCH is not guarded, the
\* activity record is (create_activity_record, server.py:1274-1291).
ReserveCandidate(app, env) ==
    IF ~env.patchOk THEN Outcome(TRUE, TRUE, FALSE, FALSE, FALSE)
    ELSE Outcome(FALSE, TRUE, TRUE, TRUE, FALSE)

\* The actionType of a request body: the three the route dispatches, one it
\* does not, and none (action_data.get('actionType') is None).
ActionTypes == {"approve", "reject", "reserve", "shortlist", Missing}

\* The request body as request.get_json() yields it: a JSON object, or
\* nothing the handler can index (no JSON body, JSON null).
Bodies == {"object", "none"}

\* server.py:1152, 1234: the application_status each action writes.
StatusWritten(action) == IF action = "approve" THEN "Selected" ELSE "Rejected"

\* A variant of the validation that lets an approve without job_order_id
\* through.
ValidationErrorLax(action, hasJob) ==
    IF action \notin {"approve", "reject", "reserve"}
    THEN "Invalid action type"
    ELSE ""

\* server.py:2753-2773: the 400 answer of the dispatch, "" when the request
\* is dispatched to a client method.
ValidationError(action, hasJob) ==
    IF action = "approve" /\ ~hasJob THEN "job_order_id required for approval"
    ELSE IF action \notin {"approve", "reject", "reserve"}
    THEN "Invalid action type"
    ELSE ""

NoAct ==
    [op |-> "none", action |-> "", app |-> NoApp, env |-> FlowEnv(TRUE, TRUE, TRUE, TRUE),
     found |-> FALSE, patched |-> FALSE, status |-> 0, success |-> FALSE,
     workflow_triggered |-> FALSE, error |-> "", body |-> "object",
     hasJob |-> FALSE, called |-> FALSE]

\* The answer of the route; called is whether a client method, and with it
\* a CRM call, was reached.
Answer(action, app, env, r, status, error) ==
    [op |-> "candidate_action", action |-> action, app |-> app, env |-> env,
     found |-> r.found, patched |-> r.patched, status |-> status,
     success |-> r.success, workflow_triggered |-> r.workflow_triggered,
     error |-> error, body |-> "object", hasJob |-> FALSE, called |-> FALSE]

NotCalled == Outcome(FALSE, FALSE, FALSE, FALSE, FALSE)

\* POST /api/hubspot/candidates/{id}/actions (server.py:2742-2776), for a
\* request that passed require_auth.  Without an indexable body the
\* assignment of server.py:2746 raises and the handler answers 500.
CandidateActionRoute ==
    /\ act = NoAct
    /\ \E app \in Apps, action \in ActionTypes, hasJob \in BOOLEAN, env \in FlowEnvs,
          body \in Bodies :
       \E invalid \in {ValidationError(action, hasJob)} :
       \E r \in {IF body # "object" \/ invalid # "" THEN NotCalled
                 ELSE IF action = "approve" THEN ApproveCandidate(app, env)
                 ELSE IF action = "reject" THEN RejectCandidate(app, env)
                 ELSE ReserveCandidate(app, env)} :
           /\ act' = [(IF body # "object"
                       THEN Answer(action, app, env, r, 500,
                                   "Failed to submit candidate action")
                       ELSE IF invalid # ""
                       THEN Answer(action, app, env, r, 400, invalid)
                       ELSE IF r.raised
                       THEN Answer(action, app, env, r, 500,
                                   "Failed to submit candidate action")
                       ELSE Answer(action, app, env, r, 200, ""))
                      EXCEPT !.body = body, !.hasJob = hasJob,
                             !.called = (body = "object" /\ invalid = "")]
           /\ crmStatus' = IF r.patched /\ action \in {"approve", "reject"}
                           THEN [crmStatus EXCEPT ![app] = StatusWritten(action)]
                           ELSE crmStatus
           /\ UNCHANGED notActionVars

\* The response has been sent.
ActionAnswered ==
    /\ act # NoAct
    /\ act' = NoAct
    /\ UNCHANGED crmStatus
    /\ UNCHANGED notActionVars

ActionIdle ==
    /\ crmStatus = [a \in Apps |-> ""]
    /\ act = NoAct

\* ------------------------------------------------------------ uploads

\* server.py:38: MAX_CONTENT_LENGTH, in megabytes.
MAX_CONTENT_LENGTH == 10

\* server.py:2831: the per-category cap on provision documents.
MaxPerCategory == 5

\* server.py:1579: the page size of the provisions search.
SearchLimit == 100

\* Largest batch of one request, and the most files the model lets the upload
\* folder, the CRM's provision records and its file manager hold.
MaxBatch == 2
MaxFiles == 6

\* Content lengths tried, in megabytes: at the cap and over it.
ContentLengths == {MAX_CONTENT_LENGTH, MAX_CONTENT_LENGTH + 1}

\* Flask checks MAX_CONTENT_LENGTH (server.py:118-119) when the body is first
\* parsed, which is the handler's read of request.files (server.py:2822,
\* 2459); it raises RequestEntityTooLarge there, inside the handler's try.
TooLarge(size) == size > MAX_CONTENT_LENGTH

\* get_company_provisions (server.py:1559-1592): a failed search is answered
\* with the empty list.
GetCompanyProvisions(searchOk) ==
    IF ~searchOk THEN 0
    ELSE IF provisions > SearchLimit THEN SearchLimit ELSE provisions

\* count_provision_documents (server.py:1594-1601)
CountProvisionDocuments(searchOk) == GetCompanyProvisions(searchOk)

\* server.py:2829-2831: the cap check.
OverCap(existing, count) == existing + count > MaxPerCategory

\* What an upload request carried and what the handler did with it: the
\* content length, the number of file parts, the provision records stored
\* when it arrived, the files written to disk, the records created and the
\* files sent to the file manager.
UploadAnswer(route, size, count, stored, status, error, written, created, sent) ==
    [route |-> route, size |-> size, count |-> count, stored |-> stored,
     status |-> status, error |-> error, written |-> written,
     created |-> created, sent |-> sent]

NoUpload == UploadAnswer("none", 0, 0, 0, 0, "", 0, 0, 0)

\* upload_provision_documents (server.py:2818-2875).  named of the count file
\* parts carry a file name; failAt is the named file whose
\* create_provision_record raises (0: none does).
ProvisionUpload(size, hasFiles, count, named, searchOk, failAt) ==
    IF TooLarge(size)
    THEN UploadAnswer("provisions", size, count, provisions, 500,
                      "Failed to upload documents", 0, 0, 0)
    ELSE IF ~hasFiles
    THEN UploadAnswer("provisions", size, count, provisions, 400,
                      "No files provided", 0, 0, 0)
    ELSE IF OverCap(CountProvisionDocuments(searchOk), count)
    THEN UploadAnswer("provisions", size, count, provisions, 400,
                      "Maximum 5 documents allowed per category", 0, 0, 0)
    ELSE IF failAt \in 1..named
    THEN UploadAnswer("provisions", size, count, provisions, 500,
                      "Failed to upload documents", failAt, failAt - 1, 0)
    ELSE UploadAnswer("provisions", size, count, provisions, 200, "",
                      named, named, 0)

\* POST /api/hubspot/provisions/upload, for a request that passed
\* require_auth.
ProvisionUploadRoute ==
    \E size \in ContentLengths, hasFiles \in BOOLEAN, count \in 0..MaxBatch,
       searchOk \in BOOLEAN, failAt \in 0..MaxBatch :
    \E named \in {n \in {count, count - 1} : n >= 0} :
    \E r \in {ProvisionUpload(size, hasFiles, count, named, searchOk, failAt)} :
        /\ disk + r.written <= MaxFiles
        /\ provisions + r.created <= MaxFiles
        /\ upl' = r
        /\ disk' = disk + r.written
        /\ provisions' = provisions + r.created
        /\ UNCHANGED crmFiles
        /\ UNCHANGED notUploadVars

\* upload_document (route, server.py:2455-2500) with
\* HubSpotClient.upload_document (server.py:876-928): each named file is sent
\* to the file manager and then recorded; failAt is the named file whose
\* upload raises.  Nothing is written to disk.
DocumentUpload(size, hasFiles, count, named, failAt) ==
    IF TooLarge(size)
    THEN UploadAnswer("documents", size, count, provisions, 500,
                      "Failed to upload documents", 0, 0, 0)
    ELSE IF ~hasFiles
    THEN UploadAnswer("documents", size, count, provisions, 400,
                      "No files provided", 0, 0, 0)
    ELSE IF failAt \in 1..named
    THEN UploadAnswer("documents", size, count, provisions, 500,
                      "Failed to upload documents", 0, 0, failAt - 1)
    ELSE UploadAnswer("documents", size, count, provisions, 200, "", 0, 0, named)

\* POST /api/hubspot/documents/upload, for a request that passed require_auth.
DocumentUploadRoute ==
    \E size \in ContentLengths, hasFiles \in BOOLEAN, count \in 0..MaxBatch,
       failAt \in 0..MaxBatch :
    \E named \in {n \in {count, count - 1} : n >= 0} :
    \E r \in {DocumentUpload(size, hasFiles, count, named, failAt)} :
        /\ crmFiles + r.sent <= MaxFiles
        /\ upl' = r
        /\ crmFiles' = crmFiles + r.sent
        /\ UNCHANGED <<provisions, disk>>
        /\ UNCHANGED notUploadVars

UploadIdle ==
    /\ provisions = 0
    /\ disk = 0
    /\ crmFiles = 0
    /\ upl = NoUpload

\* -------------------------------------------------------- make_request

\* Most outbound requests the model follows.
MaxCalls == 3

\* server.py:187: the timeout of every call, in seconds.
Timeout == 30

Methods == {"GET", "POST", "PUT", "PATCH", "DELETE"}

\* What the CRM does with one HTTP request: it answers with a status and a
\* body that is JSON or empty, or the connection fails, or no answer comes
\* within the timeout.
Reply(kind, status, body) == [kind |-> kind, status |-> status, body |-> body]

Replies ==
    {Reply("answer", st, b) : st \in {200, 201, 204, 400, 401, 404, 429, 500},
                              b \in {"json", "empty"}}
    \cup {Reply("connection_error", 0, "empty"), Reply("timeout", 0, "empty")}

\* response.raise_for_status() (server.py:188) raises HTTPError for 4xx and
\* 5xx.
RaisesForStatus(reply) == reply.status >= 400

\* response.json() (server.py:189) on a body that is not JSON raises a
\* decode error.  In requests 2.27 and later it is
\* requests.exceptions.JSONDecodeError, a RequestException; in earlier
\* releases it is json.JSONDecodeError, a ValueError that the except clause
\* of server.py:190 does not catch.  The source does not pin the release.
JsonErrorKinds == {"RequestException", "ValueError"}

\* How an invocation ends: the decoded body returned, or an exception of the
\* given type raised to the caller; sent is the number of HTTP requests it
\* issued.
Ended(method, reply, returned, raised, sent) ==
    [method |-> method, reply |-> reply, returned |-> returned,
     raised |-> raised, sent |-> sent]

NoCall == Ended("none", Reply("none", 0, "empty"), FALSE, "", 0)

\* make_request (server.py:174-192).  jsonError is the type response.json()
\* raises in the installed release of requests.
MakeRequest(method, reply, jsonError) ==
    IF reply.kind # "answer"
    THEN Ended(method, reply, FALSE, "Exception: HubSpot API error", 1)
    ELSE IF RaisesForStatus(reply)
    THEN Ended(method, reply, FALSE, "Exception: HubSpot API error", 1)
    ELSE IF reply.body = "json"
    THEN Ended(method, reply, TRUE, "", 1)
    ELSE IF jsonError = "RequestException"
    THEN Ended(method, reply, FALSE, "Exception: HubSpot API error", 1)
    ELSE Ended(method, reply, FALSE, "json.JSONDecodeError", 1)

\* One invocation of make_request by any caller.
CrmRequest ==
    /\ outbound < MaxCalls
    /\ \E method \in Methods, reply \in Replies, jsonError \in JsonErrorKinds :
       \E r \in {MakeRequest(method, reply, jsonError)} :
           /\ call' = r
           /\ outbound' = outbound + r.sent
    /\ UNCHANGED notClientVars

ClientIdle ==
    /\ outbound = 0
    /\ call = NoCall

\* ------------------------------------------------------ record mappers

\* Values of a text property in a CRM record: not in the bag, null, or a text.
TextValues == {Missing, Null, "text"}
\* Values of a property that carries a JSON document (work_experience,
\* education): a text value is parseable JSON or it is not.
JsonValues == {Missing, Null, "[json]", "not json"}

\* Python values in a mapper's output.  None is what dict.get returns for a
\* key that is present with a null value.
None == Null
EmptyList == "[]"
Items == "[items]"
Parsed == "[parsed]"

\* str.split (server.py:1020, 1057): the list of the parts of a text.
Split(v) == Items

\* `props.get(k, '').split(sep) if props.get(k) else []` (server.py:1020-1024,
\* 1057-1060)
SplitOrEmpty(props, key) ==
    IF Truthy(props[key]) THEN Split(props[key]) ELSE EmptyList

\* json.loads(props.get(k, '[]')) (server.py:1062, 1064): the exception it
\* raises, or "" when it returns.
JsonLoadsRaises(v) ==
    IF v = Null THEN "TypeError"
    ELSE IF v = "not json" THEN "JSONDecodeError"
    ELSE ""
JsonLoads(v) == IF v = Missing THEN EmptyList ELSE Parsed

\* f"{firstname} {lastname}".strip() (server.py:1040): None is rendered as the text
\* "None".
Rendered(v) == IF v = Missing THEN "" ELSE IF v = Null THEN "None" ELSE v
FullName(firstname, lastname) ==
    IF Rendered(firstname) = "" /\ Rendered(lastname) = "" THEN ""
    ELSE IF Rendered(firstname) = "None" \/ Rendered(lastname) = "None"
    THEN "None"
    ELSE "text"

\* What a mapper call did: the mapper, its input bag, the exception raised
\* ("" if none), the record returned and its integer field.
Mapped(mapper, props, raised, out, count) ==
    [mapper |-> mapper, props |-> props, raised |-> raised, out |-> out,
     count |-> count]
NoFields == [id |-> ""]
NotMapped == Mapped("none", NoFields, "", NoFields, 0)

\* format_candidate (server.py:1033-1067).  phone, age, location and
\* professional_summary are read like email, languages like skills,
\* education like work_experience.
CandidateBags ==
    [firstname : TextValues, lastname : TextValues, email : TextValues,
     skills : TextValues, work_experience : JsonValues]
FormatCandidateRecord(props) ==
    IF JsonLoadsRaises(props.work_experience) # ""
    THEN Mapped("format_candidate", props,
                JsonLoadsRaises(props.work_experience), NoFields, 0)
    ELSE Mapped("format_candidate", props, "",
                [id |-> "id",
                 name |-> FullName(props.firstname, props.lastname),
                 first_name |-> Get(props, "firstname", ""),
                 last_name |-> Get(props, "lastname", ""),
                 email |-> Get(props, "email", ""),
                 skills |-> SplitOrEmpty(props, "skills"),
                 work_experience |-> JsonLoads(props.work_experience),
                 status |-> "available"], 0)

\* format_job_order (server.py:990-1031).  counted is whether
\* get_candidates_for_job_order returned (server.py:995-1000) and n the
\* number of candidates it returned.  description and created_date are read
\* like title; location and status like position_type; salary_range
\* and benefits like deadline; preferred_requirements like
\* essential_requirements.
MaxCount == 2
JobOrderBags ==
    [job_order_title : TextValues, title : TextValues,
     position_type : TextValues, deadline : TextValues,
     essential_requirements : TextValues]
FormatJobOrderRecord(props, counted, n) ==
    Mapped("format_job_order", props, "",
           [id |-> "id",
            title |-> Get(props, "job_order_title", Get(props, "title", "")),
            position_type |-> Get(props, "position_type", "Full-time"),
            deadline |-> Get(props, "deadline", ""),
            essential_requirements |->
                SplitOrEmpty(props, "essential_requirements")],
           IF counted THEN n ELSE 0)

\* format_candidate_from_application (server.py:528-586).  The name is
\* `props.get('application_name', '') or ''` and falls back to
\* "Applicant <id>"; the status is `props.get('application_status') or
\* 'active'`, lower-cased and mapped.
ApplicationBags ==
    [application_name : TextValues \cup {""},
     application_status : {Missing, Null, "Selected", "Rejected"},
     hs_createdate : TextValues,
     hs_pipeline_stage : {Missing, Null, "closed_won"},
     lifecyclestage : {Missing}]
DisplayStatus(raw) ==
    LET status == IF Truthy(raw) THEN raw ELSE "active"
    IN  IF status = "Selected" THEN "approved"
        ELSE IF status = "active" THEN "pending_review"
        ELSE IF status = "Rejected" THEN "rejected"
        ELSE status
FormatCandidateFromApplication(props) ==
    Mapped("format_candidate_from_application", props, "",
           [id |-> "id",
            application_id |-> "id",
            name |-> IF Truthy(props.application_name)
                     THEN props.application_name ELSE "Applicant id",
            status |-> DisplayStatus(props.application_status),
            application_status |-> DetermineApplicationStatus(props),
            application_date |-> Get(props, "hs_createdate", ""),
            skills |-> Items], 30)

\* format_document (server.py:1069-1080).  type, description, upload_date
\* and file_url are read like name and category.
DocumentBags == [name : TextValues, category : TextValues]
FormatDocumentRecord(props) ==
    Mapped("format_document", props, "",
           [id |-> "id",
            name |-> Get(props, "name", ""),
            category |-> Get(props, "category", "")], 0)

\* One call of each mapper on a CRM record.
FormatCandidate ==
    /\ mapped = NotMapped
    /\ \E props \in CandidateBags : mapped' = FormatCandidateRecord(props)
    /\ UNCHANGED notMapperVars

FormatJobOrder ==
    /\ mapped = NotMapped
    /\ \E props \in JobOrderBags, counted \in BOOLEAN, n \in 0..MaxCount :
          mapped' = FormatJobOrderRecord(props, counted, n)
    /\ UNCHANGED notMapperVars

FormatApplication ==
    /\ mapped = NotMapped
    /\ \E props \in ApplicationBags :
          mapped' = FormatCandidateFromApplication(props)
    /\ UNCHANGED notMapperVars

FormatDocument ==
    /\ mapped = NotMapped
    /\ \E props \in DocumentBags : mapped' = FormatDocumentRecord(props)
    /\ UNCHANGED notMapperVars

\* The caller takes the record, or handles the exception.
MapperReturned ==
    /\ mapped # NotMapped
    /\ mapped' = NotMapped
    /\ UNCHANGED notMapperVars

MapperIdle == mapped = NotMapped

\* ------------------------------------------- get_job_orders_for_company

\* Job-order objects of the CRM (at most 100 are listed, server.py:295).
NumJobs == 2
Jobs == 1..NumJobs

\* The company asking, and another tenant of the CRM.
ThisCompany == "company-1"
OtherCompany == "company-2"

\* The denormalized company properties of a job order (server.py:303-306).
\* A text either contains the company's name or does not.
JobBags ==
    {[company_id |-> ThisCompany, company_name |-> "", job_order_title |-> "Chef"],
     [company_id |-> OtherCompany, company_name |-> "Acme Foods",
      job_order_title |-> "Chef"],
     [company_id |-> "", company_name |-> "Other", job_order_title |-> "Chef at Acme"],
     [company_id |-> OtherCompany, company_name |-> "Other",
      job_order_title |-> "Chef"]}
CompanyNames == {"", "Acme"}

\* `needle.lower() in hay.lower()` (server.py:313, 316)
ContainsName(needle, hay) ==
    needle = "Acme" /\ hay \in {"Acme Foods", "Chef at Acme"}

\* The filtering criteria of server.py:309-318.
IsMatch(company_id, company_name, props) ==
    \/ props.company_id = company_id
    \/ /\ company_name # ""
       /\ props.company_name # ""
       /\ ContainsName(company_name, props.company_name)
    \/ /\ company_name # ""
       /\ props.job_order_title # ""
       /\ ContainsName(company_name, props.job_order_title)

\* Outcomes of the CRM calls of one listing:
\*   companyOk - get_company_by_id (server.py:246) answered
\*   edgesOk   - GET company -> job-order associations (server.py:254) answered
\*   failJobs  - job orders whose GET (server.py:271) raises
\*   listOk    - GET of all job orders (server.py:296) answered
JobEnv(companyOk, edgesOk, failJobs, listOk) ==
    [companyOk |-> companyOk, edgesOk |-> edgesOk, failJobs |-> failJobs,
     listOk |-> listOk]
JobEnvs ==
    {JobEnv(c, e, f, l) : c \in BOOLEAN, e \in BOOLEAN, f \in SUBSET Jobs,
                          l \in BOOLEAN}

\* What a listing did: the job orders returned, whether they came from the
\* association lookup or the heuristic, and whether the heuristic over all
\* job orders was run.
Listed(op, env, jobs, path, heuristic) ==
    [op |-> op, env |-> env, jobs |-> jobs, path |-> path,
     heuristic |-> heuristic]
NotListed == Listed("none", JobEnv(TRUE, TRUE, {}, TRUE), {}, "none", FALSE)

\* Method 2 (server.py:289-329): every job order that matches.
HeuristicJobs(env) ==
    IF env.listOk
    THEN {j \in Jobs : IsMatch(ThisCompany, companyName, jobBag[j])}
    ELSE {}

\* get_job_orders_for_company (server.py:240-336)
GetJobOrdersForCompany(env) ==
    LET fetched == IF env.edgesOk THEN companyEdges \ env.failJobs ELSE {}
    IN  IF ~env.companyOk
        THEN Listed("job_orders", env, {}, "none", FALSE)
        ELSE IF fetched # {}
        THEN Listed("job_orders", env, fetched, "associations", FALSE)
        ELSE Listed("job_orders", env, HeuristicJobs(env),
                    IF HeuristicJobs(env) # {} THEN "heuristic" ELSE "none",
                    TRUE)

ListJobOrders ==
    /\ listing = NotListed
    /\ \E env \in JobEnvs : listing' = GetJobOrdersForCompany(env)
    /\ UNCHANGED <<companyEdges, jobBag, companyName>>
    /\ UNCHANGED notJobVars

\* The caller takes the list.
JobOrdersReturned ==
    /\ listing # NotListed
    /\ listing' = NotListed
    /\ UNCHANGED <<companyEdges, jobBag, companyName>>
    /\ UNCHANGED notJobVars

JobsIdle ==
    /\ companyEdges = {}
    /\ jobBag = [j \in Jobs |-> CHOOSE b \in JobBags : b.company_id = ThisCompany]
    /\ companyName = ""
    /\ listing = NotListed

\* ------------------------------------------------- GET /candidates/{id}

\* Object ids the CRM may use.  Applications and contacts are numbered
\* independently, so one id may name an object of each type.
NumIds == 2
Ids == 1..NumIds

\* Outcomes of the CRM calls of one request:
\*   demo        - request.company_id starts with 'demo_company_' (server.py:2249)
\*   appUp       - the application GET (server.py:2255) reached the CRM
\*   linksUp     - the contact-association GET (server.py:2264) answered
\*   link        - the contact linked to the application, 0 if none
\*   linkedUp    - the GET of the linked contact (server.py:2272) answered
\*   labelsUp    - the job-association GET (server.py:2285) answered
\*   contactUp   - the contact GET of the fallback (server.py:591) reached the CRM
DetailEnv(demo, appUp, linksUp, link, linkedUp, labelsUp, contactUp) ==
    [demo |-> demo, appUp |-> appUp, linksUp |-> linksUp, link |-> link,
     linkedUp |-> linkedUp, labelsUp |-> labelsUp, contactUp |-> contactUp]
DetailEnvs ==
    {DetailEnv(d, a, l, k, c, b, f) :
        d \in BOOLEAN, a \in BOOLEAN, l \in BOOLEAN, k \in {0} \cup contactIds,
        c \in BOOLEAN, b \in BOOLEAN, f \in BOOLEAN}

\* The answer: the HTTP status, the 'id' of the body, and where the body's
\* data comes from: the application with the id (and its linked contact),
\* the contact with the id, or the literal record of server.py:2356-2369.
Detail(id, env, status, source, bodyId) ==
    [op |-> "get_candidate", id |-> id, env |-> env, status |-> status,
     source |-> source, bodyId |-> bodyId]
NoDetail ==
    [op |-> "none", id |-> 0,
     env |-> DetailEnv(FALSE, TRUE, TRUE, 0, TRUE, TRUE, TRUE),
     status |-> 0, source |-> "", bodyId |-> 0]

\* make_request raises for a 404 as for any other failure (server.py:188-192).
ApplicationFetched(id, env) == id \in appIds /\ env.appUp
ContactFetched(id, env) == id \in contactIds /\ env.contactUp

\* server.py:2254-2349: the application path returns, unless one of its
\* unguarded CRM calls raises.
ApplicationPathReturns(id, env) ==
    /\ ApplicationFetched(id, env)
    /\ env.linksUp
    /\ env.link # 0 => env.linkedUp

\* get_candidate (server.py:2245-2370), for a request that passed
\* require_auth.  get_demo_candidate_details is not defined in the source, so
\* the call of server.py:2251 raises NameError.
GetCandidateAnswer(id, env) ==
    IF env.demo
    THEN Detail(id, env, 200, "literal", id)
    ELSE IF ApplicationPathReturns(id, env)
    THEN Detail(id, env, 200, "application", id)
    ELSE IF ContactFetched(id, env)
    THEN Detail(id, env, 200, "contact", id)
    ELSE Detail(id, env, 200, "literal", id)

GetCandidate ==
    /\ detail = NoDetail
    /\ \E id \in Ids, env \in DetailEnvs : detail' = GetCandidateAnswer(id, env)
    /\ UNCHANGED <<appIds, contactIds>>
    /\ UNCHANGED notCandidateVars

\* The response has been sent.
CandidateAnswered ==
    /\ detail # NoDetail
    /\ detail' = NoDetail
    /\ UNCHANGED <<appIds, contactIds>>
    /\ UNCHANGED notCandidateVars

CandidateIdle ==
    /\ appIds = {}
    /\ contactIds = {}
    /\ detail = NoDetail

\* ------------------------------------------------------------ scorecards

\* Assessment records the CRM is let hold in all.
MaxSaves == 3

\* The company_id claim of the caller's token.
Companies == {ThisCompany, OtherCompany}

\* The key properties of an assessment record (server.py:1331-1334); the
\* remaining properties are copied from the request body.
AssessmentKeys == Apps \X Companies

RECURSIVE SumOver(_, _)
SumOver(f, keys) ==
    IF keys = {} THEN 0
    ELSE LET k == CHOOSE x \in keys : TRUE
         IN  f[k] + SumOver(f, keys \ {k})

\* The number of assessment records the CRM holds, and holds for a candidate.
TotalAssessments(recs) == SumOver(recs, AssessmentKeys)
AssessmentsOf(recs, candidate) ==
    SumOver(recs, {k \in AssessmentKeys : k[1] = candidate})

\* final_decision of a request body (server.py:2572-2577).
Decisions == {"approve", "reject", "hold"}

\* A variant of save_candidate_assessment that keeps one record per key,
\* replacing the one there is.
SaveCandidateAssessmentInPlace(recs, candidate, company, createOk) ==
    IF createOk THEN [recs EXCEPT ![<<candidate, company>>] = 1] ELSE recs

\* save_candidate_assessment (server.py:1326-1367): one POST that creates a
\* record; it raises when the POST fails.
SaveCandidateAssessment(recs, candidate, company, createOk) ==
    IF createOk
    THEN [recs EXCEPT ![<<candidate, company>>] = @ + 1]
    ELSE recs

\* server.py:2573-2574: approve_candidate(candidate_id, 'Client Assessment
\* Approved') passes the candidate id as job_order_id and the text as
\* candidate_id.  The lookup of server.py:1135-1147 finds no association
\* whose toObjectId is the text and raises; so does a failed lookup.
ScorecardApprove(env) == Outcome(TRUE, FALSE, FALSE, FALSE, FALSE)

\* The follow-up call of the decision (server.py:2572-2577).
FollowUp(decision, candidate, env) ==
    IF decision = "approve" THEN ScorecardApprove(env)
    ELSE IF decision = "reject" THEN RejectCandidate(candidate, env)
    ELSE NotCalled

\* The answer of a scorecard request: created is whether the assessment
\* record was persisted.
Scored(op, candidate, company, decision, created, status, error) ==
    [op |-> op, candidate |-> candidate, company |-> company,
     decision |-> decision, created |-> created, status |-> status,
     error |-> error]
NoScore == Scored("none", NoApp, ThisCompany, "hold", FALSE, 0, "")

\* POST /api/hubspot/candidates/{id}/scorecard (server.py:2561-2584), for a
\* request that passed require_auth.
SaveCandidateScorecard ==
    /\ score = NoScore
    /\ TotalAssessments(assessments) < MaxSaves
    /\ \E candidate \in Apps, company \in Companies, decision \in Decisions,
          createOk \in BOOLEAN, body \in Bodies,
          env \in {FlowEnv(TRUE, p, w, TRUE) : p \in BOOLEAN, w \in BOOLEAN} :
       \E created \in {body = "object" /\ createOk} :
       \E r \in {IF created THEN FollowUp(decision, candidate, env)
                 ELSE NotCalled} :
           /\ assessments' =
                  IF body = "object"
                  THEN SaveCandidateAssessment(assessments, candidate, company,
                                               createOk)
                  ELSE assessments
           /\ crmStatus' = IF r.patched /\ decision = "reject"
                           THEN [crmStatus EXCEPT ![candidate] = "Rejected"]
                           ELSE crmStatus
           /\ score' = IF created /\ ~r.raised
                       THEN Scored("save_scorecard", candidate, company,
                                   decision, created, 200, "")
                       ELSE Scored("save_scorecard", candidate, company,
                                   decision, created, 500,
                                   "Failed to save candidate scorecard")
           /\ UNCHANGED <<act, notScoreActionVars>>

\* GET /api/hubspot/candidates/{id}/scorecard: get_candidate_assessment
\* (server.py:1293-1324) searches the records of the candidate and returns
\* the first; it writes nothing.
GetCandidateScorecard ==
    /\ score = NoScore
    /\ \E candidate \in Apps, company \in Companies, searchOk \in BOOLEAN :
          score' = Scored("get_scorecard", candidate, company, "hold",
                          searchOk /\ AssessmentsOf(assessments, candidate) > 0,
                          200, "")
    /\ UNCHANGED assessments
    /\ UNCHANGED notScoreVars

\* The response has been sent.
ScoreAnswered ==
    /\ score # NoScore
    /\ score' = NoScore
    /\ UNCHANGED assessments
    /\ UNCHANGED notScoreVars

ScoreIdle ==
    /\ assessments = [k \in AssessmentKeys |-> 0]
    /\ score = NoScore

\* ------------------------------------------------- waiting on the CRM

\* The places of the source that send an HTTP request to the CRM:
\* make_request (server.py:183), upload_document (server.py:885), the PUT of
\* the approve and reject routes (server.py:2185, 2225) and the PATCH, PUT
\* and POST of the custom-object action (server.py:2675, 2691, 2710).
CallSites ==
    {"make_request", "upload_document", "approve_route", "reject_route",
     "custom_patch", "custom_label", "custom_workflow"}

\* The timeout argument of the call, in seconds; NoTimeout when the call
\* passes none (requests then waits without limit).  Only server.py:187
\* passes one.
NoTimeout == 0
TimeoutOf(site) == IF site = "make_request" THEN Timeout ELSE NoTimeout

\* A handler blocked on a call: the call site, whether the CRM will ever
\* answer, the seconds waited (counted up to the timeout; the parity of the
\* seconds beyond it is kept so that time goes on), and the status the
\* handler answered with (0 while it waits).
Waiting(site, silent, elapsed, status) ==
    [site |-> site, silent |-> silent, elapsed |-> elapsed, status |-> status,
     odd |-> FALSE]
NoWait == Waiting("none", FALSE, 0, 0)

\* A handler sends a request to the CRM and blocks on the reply.
StartCall ==
    /\ wait = NoWait
    /\ \E site \in CallSites, silent \in BOOLEAN :
          wait' = Waiting(site, silent, 0, 0)
    /\ UNCHANGED notWaitVars

\* The CRM replies; the handler goes on and answers.
CrmAnswers ==
    /\ wait.site # "none" /\ wait.status = 0
    /\ ~wait.silent
    /\ wait' = [wait EXCEPT !.status = 200, !.odd = FALSE]
    /\ UNCHANGED notWaitVars

\* A second passes without a reply.  A call with a timeout does not wait
\* beyond it; a call without one goes on waiting.
Elapse ==
    /\ wait.site # "none" /\ wait.status = 0
    /\ TimeoutOf(wait.site) # NoTimeout => wait.elapsed < TimeoutOf(wait.site)
    /\ wait' = IF wait.elapsed < Timeout
               THEN [wait EXCEPT !.elapsed = @ + 1]
               ELSE [wait EXCEPT !.odd = ~@]
    /\ UNCHANGED notWaitVars

\* The timeout of the call, if it has one, expires: requests raises Timeout,
\* a RequestException (server.py:190-192), and the handler answers with its
\* error response.
TimeoutExpires ==
    /\ wait.site # "none" /\ wait.status = 0
    /\ TimeoutOf(wait.site) # NoTimeout
    /\ wait.elapsed >= TimeoutOf(wait.site)
    /\ wait' = [wait EXCEPT !.status = 500]
    /\ UNCHANGED notWaitVars

\* The response has been sent.
CallAnswered ==
    /\ wait.status # 0
    /\ wait' = NoWait
    /\ UNCHANGED notWaitVars

WaitIdle == wait = NoWait

\* --------------------------- concurrent update_association_label calls

\* Two requests handled at once (the server runs handlers in parallel
\* workers), both addressing the edge of one application and the job order.
Procs == {1, 2}

\* The edge at the CRM: whether it exists, and its labels.
Edge(exists, lbls) == [exists |-> exists, labels |-> lbls]
NoEdge == Edge(FALSE, {})

\* One call: where it is, the label it was asked to set, the labels it read
\* (server.py:707), and association_updated of its result.
\*   "idle"    - not started
\*   "called"  - the application has been found (server.py:656-683)
\*   "read"    - the edge has been read, the label is not on it (689-712)
\*   "deleted" - the DELETE has been issued (server.py:725-733)
\*   "done"    - it returned success;  "raised" - it raised
Call(pc, label, existing, updated) ==
    [pc |-> pc, label |-> label, existing |-> existing, updated |-> updated]
NoProcCall == Call("idle", "", {}, FALSE)

\* A request arrives; its label differs from the other call's.
BeginUpdate(p) ==
    /\ proc[p].pc = "idle"
    /\ \E label \in Labels :
          /\ \A q \in Procs \ {p} : proc[q].label # label
          /\ proc' = [proc EXCEPT ![p] = Call("called", label, {}, FALSE)]
    /\ UNCHANGED edge
    /\ UNCHANGED notRaceVars

\* server.py:689-712, 756-762: the GET of the edge.  Without the edge the
\* call raises (server.py:702-703); with the label already there it returns
\* association_updated False.
ReadEdge(p) ==
    /\ proc[p].pc = "called"
    /\ proc' = [proc EXCEPT ![p] =
                  IF ~edge.exists THEN [@ EXCEPT !.pc = "raised"]
                  ELSE IF ~NeedsUpdate(edge.labels, @.label)
                  THEN [@ EXCEPT !.pc = "done", !.existing = edge.labels]
                  ELSE [@ EXCEPT !.pc = "read", !.existing = edge.labels]]
    /\ UNCHANGED edge
    /\ UNCHANGED notRaceVars

\* server.py:725-733: the DELETE of the edge; its failure (the edge is
\* already gone) is swallowed.
DeleteEdge(p) ==
    /\ proc[p].pc = "read"
    /\ edge' = NoEdge
    /\ proc' = [proc EXCEPT ![p].pc = "deleted"]
    /\ UNCHANGED notRaceVars

\* server.py:735-755: the batch/create PUT with the labels read before plus
\* the new one.  On an edge another call has recreated meanwhile the CRM
\* adds the labelled types to those it has.
PutEdge(p) ==
    /\ proc[p].pc = "deleted"
    /\ edge' = Edge(TRUE, edge.labels
                          \cup AllLabels(proc[p].existing, proc[p].label))
    /\ proc' = [proc EXCEPT ![p].pc = "done", ![p].updated = TRUE]
    /\ UNCHANGED notRaceVars

\* Both responses have been sent; the next pair of requests may arrive.
BothAnswered ==
    /\ \A p \in Procs : proc[p].pc \in {"done", "raised"}
    /\ proc' = [p \in Procs |-> NoProcCall]
    /\ UNCHANGED edge
    /\ UNCHANGED notRaceVars

RaceIdle ==
    /\ edge = NoEdge
    /\ proc = [p \in Procs |-> NoProcCall]

\* ------------------------------------------------ GET /companies/{id}

\* The accounts whose token a caller may hold (server.py:1756, 1846), and
\* the company ids a path may name: theirs and one no account has.
Callers ==
    {DemoAccount(Tim), CrmAccount(Tim), CrmAccount(Client), CrmAccount(Stranger)}
CompanyIds == {c.company_id : c \in Callers} \cup {"company_of_nobody"}

\* The CRM's answer to get_company_by_id (server.py:225-238).
CompanyReplies == {"found", "not_found", "unreachable"}

\* A variant of the check that lets every caller through.
AccessDeniedNever(company_id, caller) == FALSE

\* server.py:2090: the path's company id is not the token's company_id claim.
AccessDenied(company_id, caller) == company_id # caller.company_id

\* The answer: the status, the company whose data the body carries ("" if
\* none), the CRM calls made for the request, and what the CRM would reply.
CompanyAnswer(company_id, caller, status, error, data, calls) ==
    [op |-> "get_company", path |-> company_id, caller |-> caller,
     status |-> status, error |-> error, data |-> data, calls |-> calls,
     reply |-> "found"]
NoCompanyAnswer ==
    [op |-> "none", path |-> "", caller |-> DemoAccount(Tim), status |-> 0,
     error |-> "", data |-> "", calls |-> 0, reply |-> "found"]

\* get_company_details (server.py:2086-2097), for a request that passed
\* require_auth with the caller's token.
GetCompanyDetails(company_id, caller, reply) ==
    IF AccessDenied(company_id, caller)
    THEN CompanyAnswer(company_id, caller, 403, "Access denied", "", 0)
    ELSE IF reply = "found"
    THEN CompanyAnswer(company_id, caller, 200, "", company_id, 1)
    ELSE CompanyAnswer(company_id, caller, 500,
                       "Failed to get company details", "", 1)

CompanyDetailsRoute ==
    /\ companyResp = NoCompanyAnswer
    /\ outbound < MaxCalls
    /\ \E company_id \in CompanyIds, caller \in Callers,
          reply \in CompanyReplies :
       \E r \in {GetCompanyDetails(company_id, caller, reply)} :
           /\ companyResp' = [r EXCEPT !.reply = reply]
           /\ outbound' = outbound + r.calls
    /\ UNCHANGED call
    /\ UNCHANGED notCompanyClientVars

\* The response has been sent.
CompanyAnswered ==
    /\ companyResp # NoCompanyAnswer
    /\ companyResp' = NoCompanyAnswer
    /\ UNCHANGED notCompanyVars

CompanyIdle == companyResp = NoCompanyAnswer

TypeOK ==
    /\ linked \subseteq Apps
    /\ labels \in [Apps \cup {NoApp} -> SUBSET Labels]
    /\ \A a \in (Apps \cup {NoApp}) \ linked : labels[a] = {}
    /\ now \in 0..MaxTime
    /\ appStatus = NotComputed \/ appStatus = DetermineApplicationStatus(appProps)

\* The CRM before the portal touches it: recruiters have linked applications
\* to the job order and marked some of them Recommended; no decision yet.
InitCrm ==
    /\ linked \in SUBSET Apps
    /\ labels \in [Apps \cup {NoApp} -> SUBSET {Recommended}]
    /\ \A a \in (Apps \cup {NoApp}) \ linked : labels[a] = {}

AuthIdle ==
    /\ now = 0
    /\ token = NoToken
    /\ grant = NoGrant
    /\ resp = NoResponse

Init ==
    /\ InitCrm
    /\ PortalIdle
    /\ AuthIdle
    /\ StatusIdle
    /\ ActionIdle
    /\ UploadIdle
    /\ ClientIdle
    /\ MapperIdle
    /\ JobsIdle
    /\ CandidateIdle
    /\ ScoreIdle
    /\ WaitIdle
    /\ RaceIdle
    /\ CompanyIdle

Next ==
    \/ RouteUpdateLabelIncomplete
    \/ RouteUpdateLabel
    \/ ApproveRoute
    \/ RejectRoute
    \/ CustomObjectAction
    \/ ListCandidates
    \/ Answered

Spec == Init /\ [][Next]_vars

\* The auth gateway on its own: the CRM's association edges play no part.
InitAuth ==
    /\ linked = {}
    /\ labels = [a \in Apps \cup {NoApp} |-> {}]
    /\ PortalIdle
    /\ AuthIdle
    /\ StatusIdle
    /\ ActionIdle
    /\ UploadIdle
    /\ ClientIdle
    /\ MapperIdle
    /\ JobsIdle
    /\ CandidateIdle
    /\ ScoreIdle
    /\ WaitIdle
    /\ RaceIdle
    /\ CompanyIdle

NextAuth ==
    \/ LoginRoute
    \/ LoginNoBody
    \/ Request
    \/ RefreshToken
    \/ Respond
    \/ Tick

SpecAuth == InitAuth /\ [][NextAuth]_vars

\* The status mapping on its own, over every property bag.
InitStatus ==
    /\ linked = {}
    /\ labels = [a \in Apps \cup {NoApp} |-> {}]
    /\ PortalIdle
    /\ AuthIdle
    /\ appProps \in PropertyBags
    /\ appStatus = NotComputed
    /\ ActionIdle
    /\ UploadIdle
    /\ ClientIdle
    /\ MapperIdle
    /\ JobsIdle
    /\ CandidateIdle
    /\ ScoreIdle
    /\ WaitIdle
    /\ RaceIdle
    /\ CompanyIdle

NextStatus == DetermineStatus

SpecStatus == InitStatus /\ [][NextStatus]_vars

\* The candidate-action endpoint over the CRM's edges.
InitActions ==
    /\ InitCrm
    /\ PortalIdle
    /\ AuthIdle
    /\ StatusIdle
    /\ ActionIdle
    /\ UploadIdle
    /\ ClientIdle
    /\ MapperIdle
    /\ JobsIdle
    /\ CandidateIdle
    /\ ScoreIdle
    /\ WaitIdle
    /\ RaceIdle
    /\ CompanyIdle

NextActions ==
    \/ CandidateActionRoute
    \/ ActionAnswered

SpecActions == InitActions /\ [][NextActions]_vars

\* The upload endpoints.  The CRM may already hold provision records of the
\* company, up to the cap.
InitUploads ==
    /\ linked = {}
    /\ labels = [a \in Apps \cup {NoApp} |-> {}]
    /\ PortalIdle
    /\ AuthIdle
    /\ StatusIdle
    /\ ActionIdle
    /\ provisions \in 0..MaxPerCategory
    /\ disk = 0
    /\ crmFiles = 0
    /\ upl = NoUpload
    /\ ClientIdle
    /\ MapperIdle
    /\ JobsIdle
    /\ CandidateIdle
    /\ ScoreIdle
    /\ WaitIdle
    /\ RaceIdle
    /\ CompanyIdle

NextUploads ==
    \/ ProvisionUploadRoute
    \/ DocumentUploadRoute

SpecUploads == InitUploads /\ [][NextUploads]_vars

\* The CRM client's request primitive on its own.
InitClient ==
    /\ linked = {}
    /\ labels = [a \in Apps \cup {NoApp} |-> {}]
    /\ PortalIdle
    /\ AuthIdle
    /\ StatusIdle
    /\ ActionIdle
    /\ UploadIdle
    /\ ClientIdle
    /\ MapperIdle
    /\ JobsIdle
    /\ CandidateIdle
    /\ ScoreIdle
    /\ WaitIdle
    /\ RaceIdle
    /\ CompanyIdle

NextClient == CrmRequest

SpecClient == InitClient /\ [][NextClient]_vars

\* The record mappers on their own.
InitMappers ==
    /\ linked = {}
    /\ labels = [a \in Apps \cup {NoApp} |-> {}]
    /\ PortalIdle
    /\ AuthIdle
    /\ StatusIdle
    /\ ActionIdle
    /\ UploadIdle
    /\ ClientIdle
    /\ MapperIdle
    /\ JobsIdle
    /\ CandidateIdle
    /\ ScoreIdle
    /\ WaitIdle
    /\ RaceIdle
    /\ CompanyIdle

NextMappers ==
    \/ FormatCandidate
    \/ FormatJobOrder
    \/ FormatApplication
    \/ FormatDocument
    \/ MapperReturned

SpecMappers == InitMappers /\ [][NextMappers]_vars

\* The job-order listing on its own, over every CRM content.
InitJobs ==
    /\ linked = {}
    /\ labels = [a \in Apps \cup {NoApp} |-> {}]
    /\ PortalIdle
    /\ AuthIdle
    /\ StatusIdle
    /\ ActionIdle
    /\ UploadIdle
    /\ ClientIdle
    /\ MapperIdle
    /\ companyEdges \in SUBSET Jobs
    /\ jobBag \in [Jobs -> JobBags]
    /\ companyName \in CompanyNames
    /\ listing = NotListed
    /\ CandidateIdle
    /\ ScoreIdle
    /\ WaitIdle
    /\ RaceIdle
    /\ CompanyIdle

NextJobs ==
    \/ ListJobOrders
    \/ JobOrdersReturned

SpecJobs == InitJobs /\ [][NextJobs]_vars

\* The candidate-detail route on its own, over every CRM content.
InitCandidate ==
    /\ linked = {}
    /\ labels = [a \in Apps \cup {NoApp} |-> {}]
    /\ PortalIdle
    /\ AuthIdle
    /\ StatusIdle
    /\ ActionIdle
    /\ UploadIdle
    /\ ClientIdle
    /\ MapperIdle
    /\ JobsIdle
    /\ appIds \in SUBSET Ids
    /\ contactIds \in SUBSET Ids
    /\ detail = NoDetail
    /\ ScoreIdle
    /\ WaitIdle
    /\ RaceIdle
    /\ CompanyIdle

NextCandidate ==
    \/ GetCandidate
    \/ CandidateAnswered

SpecCandidate == InitCandidate /\ [][NextCandidate]_vars

\* The scorecard routes on their own.
InitScore ==
    /\ linked = {}
    /\ labels = [a \in Apps \cup {NoApp} |-> {}]
    /\ PortalIdle
    /\ AuthIdle
    /\ StatusIdle
    /\ ActionIdle
    /\ UploadIdle
    /\ ClientIdle
    /\ MapperIdle
    /\ JobsIdle
    /\ CandidateIdle
    /\ ScoreIdle
    /\ WaitIdle
    /\ RaceIdle
    /\ CompanyIdle

NextScore ==
    \/ SaveCandidateScorecard
    \/ GetCandidateScorecard
    \/ ScoreAnswered

SpecScore == InitScore /\ [][NextScore]_vars

\* Handlers waiting on the CRM.  Time passes, a CRM that is going to reply
\* does, and an expired timeout is raised: each is weakly fair.
InitWait ==
    /\ linked = {}
    /\ labels = [a \in Apps \cup {NoApp} |-> {}]
    /\ PortalIdle
    /\ AuthIdle
    /\ StatusIdle
    /\ ActionIdle
    /\ UploadIdle
    /\ ClientIdle
    /\ MapperIdle
    /\ JobsIdle
    /\ CandidateIdle
    /\ ScoreIdle
    /\ WaitIdle
    /\ RaceIdle
    /\ CompanyIdle

NextWait ==
    \/ StartCall
    \/ CrmAnswers
    \/ Elapse
    \/ TimeoutExpires
    \/ CallAnswered

SpecWait ==
    /\ InitWait /\ [][NextWait]_vars
    /\ WF_vars(CrmAnswers)
    /\ WF_vars(Elapse)
    /\ WF_vars(TimeoutExpires)
    /\ WF_vars(CallAnswered)

\* Two update_association_label calls interleaved at the granularity of
\* their CRM calls.
InitRace ==
    /\ linked = {}
    /\ labels = [a \in Apps \cup {NoApp} |-> {}]
    /\ PortalIdle
    /\ AuthIdle
    /\ StatusIdle
    /\ ActionIdle
    /\ UploadIdle
    /\ ClientIdle
    /\ MapperIdle
    /\ JobsIdle
    /\ CandidateIdle
    /\ ScoreIdle
    /\ WaitIdle
    /\ edge \in {Edge(TRUE, l) : l \in SUBSET {Recommended}}
    /\ proc = [p \in Procs |-> NoProcCall]
    /\ CompanyIdle

NextRace ==
    \/ \E p \in Procs : BeginUpdate(p)
    \/ \E p \in Procs : ReadEdge(p)
    \/ \E p \in Procs : DeleteEdge(p)
    \/ \E p \in Procs : PutEdge(p)
    \/ BothAnswered

SpecRace == InitRace /\ [][NextRace]_vars

\* The company-details route on its own.
InitCompany ==
    /\ linked = {}
    /\ labels = [a \in Apps \cup {NoApp} |-> {}]
    /\ PortalIdle
    /\ AuthIdle
    /\ StatusIdle
    /\ ActionIdle
    /\ UploadIdle
    /\ ClientIdle
    /\ MapperIdle
    /\ JobsIdle
    /\ CandidateIdle
    /\ ScoreIdle
    /\ WaitIdle
    /\ RaceIdle
    /\ CompanyIdle

NextCompany ==
    \/ CompanyDetailsRoute
    \/ CompanyAnswered

SpecCompany == InitCompany /\ [][NextCompany]_vars

\* ------------------------------------------------ properties: label edges

\* The operations that set a decision label through update_association_label.
IsLabelUpdate(r) == r.op = "route_update" /\ r.ok /\ r.app # NoApp

\* C1: after any sequence of decision-label mutations, no edge carries both
\* terminal labels, Selected and Rejected.
C1_AtMostOneTerminalLabel ==
    \A a \in Apps : ~(TerminalLabels \subseteq labels[a])

\* C2: a successful update to Selected directly followed by a successful
\* update to Rejected on the same edge leaves Rejected as the only terminal
\* label of the edge.
C2_SelectedThenRejected ==
    [][(/\ IsLabelUpdate(last') /\ last'.label = Rejected
        /\ prevUpdate = [app |-> last'.app, label |-> Selected])
       => labels'[last'.app] \cap TerminalLabels = {Rejected}]_vars

\* A step of the label-update handler whose label is already on the edge it
\* resolves, and whose client call returns.
AlreadySetStep ==
    /\ last'.op = "route_update" /\ last'.ok
    /\ last'.app # NoApp /\ last'.label \in labels[last'.app]

\* C3, as the specification states it: a call whose label is already on the edge reports "already
\* set", leaves the CRM unchanged and issues no CRM write, in the client
\* method and in the handler that wraps it.
C3_NoWriteAtAll ==
    [][AlreadySetStep =>
         /\ ~last'.updated
         /\ UNCHANGED crmVars
         /\ last'.writes = {}
         /\ last'.handlerWrites = {}]_vars

\* C3, as the code has it: a call whose label is already on the edge reports "already
\* set" (association_updated = False), leaves the CRM's edges unchanged, and
\* the client method issues no CRM write; the handler issues no association
\* write (no DELETE, no PUT) and exactly its activity-record POST.
C3_IdempotentSecondCall ==
    [][AlreadySetStep =>
         /\ ~last'.updated
         /\ UNCHANGED crmVars
         /\ last'.writes = {}
         /\ last'.handlerWrites = ActivityWrites]_vars

\* C3 witness: the handler has answered a call whose label was already set.
C3_Witness ==
    /\ last.op = "route_update" /\ last.ok /\ ~last.updated
    /\ last.label \in TerminalLabels /\ last.label \in labels[last.app]

\* C4: every candidate a listing returns comes from an edge of the job order
\* that bears the Recommended label, on every path of the listing.
C4_OnlyRecommendedListed ==
    last.op = "list_candidates" =>
        \A c \in last.cands :
            c.application_id \in linked /\ HasRecommendedLabel(c.application_id)

\* ------------------------------------------------ properties: auth gateway

\* The routes behind the gateway: those of the table that carry
\* @require_auth, and refresh.
GuardedRoutes ==
    {r.name : r \in {x \in Routes : x.auth}} \cup {"refresh_token"}

\* What a response's request presented, read off the header alone.
Presented(r) == r.header.token
WellSigned(r) ==
    r.header.kind = "bearer" /\ Presented(r).sig = <<Presented(r).payload, SecretKey>>
PastExpiry(r) == Presented(r).payload.exp <= r.at
HasIdentity(r) == {"user_id", "company_id"} \subseteq DOMAIN Presented(r).payload

\* A request turned away with 401 and the given reason: the handler did not
\* run, no CRM call was made, no identity attached and no token issued.
TurnedAway(r, reason) ==
    /\ r.status = 401 /\ r.error = reason
    /\ ~r.handlerRan /\ ~r.crmCalled
    /\ r.user_id = "" /\ r.company_id = "" /\ r.issued = NoToken

\* The cases of C5 that specification and code agree on: the handler of a
\* guarded route runs only for a well-signed, unexpired token carrying both
\* claims; a missing header is turned away with 401; an expired token with
\* reason expired; a tampered, forged or undecodable token with reason invalid.
GatewayAgreed(r) ==
    /\ r.handlerRan =>
           WellSigned(r) /\ ~PastExpiry(r) /\ HasIdentity(r)
    /\ r.header.kind = "absent" => TurnedAway(r, "No authorization header")
    /\ WellSigned(r) /\ PastExpiry(r) => TurnedAway(r, "Token expired")
    /\ (r.header.kind = "garbage" \/ (r.header.kind = "bearer" /\ ~WellSigned(r)))
           => TurnedAway(r, "Invalid token")

\* A header with no second part, or a well-signed, unexpired token that lacks
\* user_id or company_id.
Incomplete(r) ==
    \/ r.header.kind = "bare"
    \/ WellSigned(r) /\ ~PastExpiry(r) /\ ~HasIdentity(r)

\* C5, as the specification states it: on a guarded route the handler runs
\* only after the token decodes; a missing header gives 401, an expired token
\* 401 with reason expired, and a tampered or malformed token, a header with
\* no second part and a token lacking user_id or company_id all give 401 with
\* reason invalid; in none of these cases does the handler run or a CRM call
\* happen.
C5_MalformedIsInvalid ==
    resp.route \in GuardedRoutes =>
        /\ GatewayAgreed(resp)
        /\ Incomplete(resp) => TurnedAway(resp, "Invalid token")

\* C5, as the code has it: as above, except that a header with no second part
\* and a token lacking user_id or company_id give 401 with the reason
\* "Authentication failed"; the handler still does not run and no CRM call
\* happens.
C5_GatewayRejects ==
    resp.route \in GuardedRoutes =>
        /\ GatewayAgreed(resp)
        /\ Incomplete(resp) => TurnedAway(resp, "Authentication failed")

\* C5 witness: a guarded, CRM-backed route has turned away an expired token
\* that it had accepted the day before.
C5_Witness ==
    /\ resp.route = "get_job_orders"
    /\ resp.header = Header("bearer", token) /\ token # NoToken
    /\ resp.at >= token.payload.exp
    /\ resp.status = 401 /\ resp.error = "Token expired"

\* C5 witness of the third reason: a token signed by the portal that lacks
\* company_id has been turned away.
C5_WitnessIncomplete ==
    /\ resp.route = "get_job_orders"
    /\ resp.header = Header("bearer", LacksCompany)
    /\ resp.status = 401 /\ resp.error = "Authentication failed"

\* A request without a valid token: the gateway's conditions fail on its
\* header.
WithoutValidToken(r) == ~(WellSigned(r) /\ ~PastExpiry(r) /\ HasIdentity(r))

\* C6, as the specification states it: every route except login, health and
\* reset-password needs a gateway pass; no other route returns data or calls
\* the CRM for a request without a valid token.
C6_AllButThreeGuarded ==
    (/\ resp.route \notin {"none", "login", "health_check", "reset_password"}
     /\ WithoutValidToken(resp))
        => ~resp.handlerRan /\ ~resp.crmCalled

\* C6, as the code has it: every route except login, health, reset-password
\* and the two static-file routes (index and static_files) needs a gateway
\* pass: no other route runs its handler or calls the CRM for a request
\* without a valid token, and it answers 401; the two static-file routes
\* answer without a token but make no CRM call.
C6_ProtectedRoutes ==
    /\ (/\ resp.route \notin {"none", "login", "health_check", "reset_password",
                              "index", "static_files"}
        /\ WithoutValidToken(resp))
           => ~resp.handlerRan /\ ~resp.crmCalled /\ resp.status = 401
    /\ resp.route \in {"index", "static_files"} => ~resp.crmCalled

\* C6 witness: a CRM-backed route has turned away a request with no header.
C6_Witness ==
    /\ resp.route = "get_company_details"
    /\ resp.header.kind = "absent"
    /\ resp.status = 401 /\ ~resp.handlerRan

\* C6 witness of the exemption: static_files has answered a request with no
\* header.
C6_WitnessStatic ==
    /\ resp.route = "static_files"
    /\ resp.header.kind = "absent"
    /\ resp.handlerRan

\* ------------------------------------------------------ properties: login

\* C7: a login whose email is not in the allow-list get_authorized_emails
\* returns is answered 403 and issues no token, whatever the password and
\* whatever the CRM holds for the email, and no CRM call is made for it.  (A
\* request with no email or no password is answered 400 before the allow-list
\* is read; it too issues no token and makes no CRM call.)
C7_NotAllowListed ==
    (resp.route = "login" /\ resp.email \notin resp.allowList) =>
        /\ resp.issued = NoToken
        /\ ~resp.crmCalled
        /\ (resp.email # "" /\ resp.password # "") => resp.status = 403

\* C7 witness: a stranger's login with the demo password has been answered
\* 403.
C7_Witness ==
    /\ resp.route = "login" /\ resp.email = Stranger
    /\ resp.password = "tprc2025"
    /\ Stranger \notin resp.allowList
    /\ resp.status = 403 /\ resp.issued = NoToken

\* C8: the token a successful login issued, presented before its expiry to a
\* guarded route, passes the gateway, which attaches to the request exactly
\* the user_id and company_id of the account login signed in -- the demo
\* user's or the CRM contact's.
C8_TokenRoundTrip ==
    /\ (resp.route = "login" /\ resp.issued # NoToken) =>
           /\ token = resp.issued
           /\ grant \in {DemoAccount(resp.email), CrmAccount(resp.email)}
           /\ resp.password # DemoPassword(resp.email) => grant = CrmAccount(resp.email)
    /\ (/\ resp.route \in GuardedRoutes
        /\ token # NoToken
        /\ resp.header = Header("bearer", token)
        /\ resp.at < token.payload.exp)
           => /\ resp.handlerRan
              /\ resp.user_id = grant.user_id
              /\ resp.company_id = grant.company_id

\* C8 witness: a CRM contact's token has passed the gateway.
C8_Witness ==
    /\ resp.route = "get_job_orders"
    /\ resp.header = Header("bearer", token)
    /\ resp.handlerRan
    /\ grant = CrmAccount(Client)
    /\ resp.user_id = "contact_of_client"
    /\ resp.company_id = "company_of_client"

\* C8 witness of the demo path: the demo user's token has passed the gateway.
C8_WitnessDemo ==
    /\ resp.route = "get_job_orders"
    /\ resp.header = Header("bearer", token)
    /\ resp.handlerRan
    /\ resp.user_id = "tim_schibli_001"
    /\ resp.company_id = "503464912"

\* --------------------------------------------- properties: status mapping

\* What the specification expects of each mapped stage, written as a table.
StageClass ==
    [s \in {"new", "open", "qualified", "presentation_scheduled",
            "decision_maker_bought-in", "closed_won", "closed_lost",
            "appointment_scheduled", "qualified_to_buy"} |->
        IF s \in {"closed_won", "closed_lost"} THEN "Inactive"
        ELSE IF s \in {"appointment_scheduled", "qualified_to_buy"} THEN "Issues"
        ELSE "Active"]

LifecycleClass ==
    [s \in {"lead", "marketingqualifiedlead", "salesqualifiedlead", "customer",
            "evangelist", "opportunity"} |->
        IF s \in {"customer", "evangelist"} THEN "Inactive"
        ELSE IF s = "opportunity" THEN "Issues"
        ELSE "Active"]

HasValue(v) == v # Missing /\ v # Null /\ v # ""

\* C9: determine_application_status follows the priority order pipeline
\* stage, explicit status property, lifecycle stage, default: a mapped
\* pipeline stage decides whatever the other two are; otherwise a present
\* application_status decides whatever the lifecycle stage is; otherwise a
\* mapped lifecycle stage decides; otherwise the result is "Active".
C9_PriorityOrder ==
    appStatus # NotComputed =>
        LET stage == appProps.hs_pipeline_stage
            status == appProps.application_status
            lifecycle == appProps.lifecyclestage
        IN  IF stage \in DOMAIN StageClass THEN appStatus = StageClass[stage]
            ELSE IF HasValue(status) THEN appStatus = status
            ELSE IF lifecycle \in DOMAIN LifecycleClass
            THEN appStatus = LifecycleClass[lifecycle]
            ELSE appStatus = "Active"

\* C9 witness: a mapped pipeline stage has decided against an explicit status
\* and a lifecycle stage that both say otherwise.
C9_Witness ==
    /\ appProps.hs_pipeline_stage = "closed_won"
    /\ appProps.application_status = "Issues"
    /\ appProps.lifecyclestage = "lead"
    /\ appStatus = "Inactive"

\* C10: for every property bag determine_application_status returns
\* "Active", "Inactive" or "Issues" and nothing else, never the raw text of
\* the application_status property.
C10_ThreeValuesOnly ==
    appStatus # NotComputed => appStatus \in {"Active", "Inactive", "Issues"}

\* ------------------------------------------------- properties: listing

PrimarySucceeded(a) == a.found /\ a.patched

\* C12: in the approve and reject flows a workflow-trigger or activity
\* failure never fails the primary operation: when the primary CRM update
\* succeeds the endpoint answers with success, reporting a failed side effect
\* as a flag; in particular an approve whose association lookup and status
\* update succeed answers success, not an error.
C12_SideEffectsNonFatal ==
    (/\ act.op = "candidate_action"
     /\ act.action \in {"approve", "reject"}
     /\ PrimarySucceeded(act))
        => /\ act.status = 200
           /\ act.success
           /\ act.workflow_triggered = act.env.workflowOk

\* ------------------------------------------------- properties: uploads

\* C13: a provision upload whose file count, added to the documents already
\* stored for the company and category, exceeds 5 is rejected with 400 before
\* any file of the batch is written to disk and before any provision record
\* is created.  (Stated for requests within the size cap that carry files.)
C13_CapRejectsWholeBatch ==
    (/\ upl.route = "provisions"
     /\ upl.size <= 10 /\ upl.error # "No files provided"
     /\ upl.stored + upl.count > 5)
        => upl.status = 400 /\ upl.written = 0 /\ upl.created = 0

\* C14: an upload request, of documents or of provisions, whose content
\* length exceeds the 10MB cap is rejected with status 400, and no file of it
\* is written to disk or sent to the CRM.
C14_OversizeRejected ==
    (upl.route \in {"provisions", "documents"} /\ upl.size > 10)
        => /\ upl.status = 400
           /\ upl.written = 0 /\ upl.created = 0 /\ upl.sent = 0

\* --------------------------------------------- properties: make_request

\* C15: make_request issues exactly one outbound call per invocation and
\* either returns the decoded JSON body or raises one uniform error kind for
\* every failure: a non-2xx status, a transport failure, a timeout and a 2xx
\* answer without a JSON body all reach the caller as the same exception
\* type.
C15_UniformError ==
    call.method # "none" =>
        /\ call.sent = 1
        /\ call.returned <=>
               (/\ call.reply.kind = "answer" /\ call.reply.status < 300
                /\ call.reply.body = "json")
        /\ ~call.returned => call.raised = "Exception: HubSpot API error"

\* ------------------------------------------------ properties: error bodies

\* C16: no response body carries the raw CRM reply, the text of an internal
\* exception or the CRM credential: on every failure path the body is a fixed
\* {error: message} whose message does not depend on the CRM's reply.
C16_FixedErrorBodies ==
    last.status >= 400 =>
        /\ last.error # << >>
        /\ \A i \in 1..Len(last.error) : last.error[i][1] = "fixed"

\* ------------------------------------------------ properties: record mappers

\* The default a mapper documents for an output field whose property is
\* absent: the empty string, the empty list, or the field's fixed text.
FieldSource ==
    [first_name |-> "firstname", last_name |-> "lastname", email |-> "email",
     skills |-> "skills", work_experience |-> "work_experience",
     deadline |-> "deadline", position_type |-> "position_type",
     essential_requirements |-> "essential_requirements",
     name |-> "name", category |-> "category",
     application_date |-> "hs_createdate"]
ListFields == {"skills", "work_experience", "essential_requirements"}
DefaultOf(field) ==
    IF field \in ListFields THEN EmptyList
    ELSE IF field = "position_type" THEN "Full-time"
    ELSE ""

\* The output fields of the latest call that are read from one property of
\* the bag, that property being missing or null.
DefaultedFields(m) ==
    {f \in DOMAIN m.out \cap DOMAIN FieldSource :
        /\ FieldSource[f] \in DOMAIN m.props
        /\ ~(m.mapper = "format_candidate" /\ f = "name")
        /\ ~(m.mapper = "format_candidate_from_application" /\ f = "skills")
        /\ m.props[FieldSource[f]] \in {Missing, Null}}

\* C17: the record mappers are total: on a record in which any subset of
\* properties is missing or null they never raise, and every field whose
\* property is missing or null holds its default.
C17_MappersTotal ==
    (/\ mapped.mapper # "none"
     /\ \A k \in DOMAIN mapped.props : mapped.props[k] # "not json")
    => /\ mapped.raised = ""
       /\ \A f \in DefaultedFields(mapped) : mapped.out[f] = DefaultOf(f)

\* ------------------------------------------- properties: job-order listing

\* C18: when the company has at least one job-order association edge, the
\* listing is built from the associated job orders only and the heuristic is
\* not consulted; the heuristic runs only when the CRM returns no edges.
C18_AssociationsPreferred ==
    listing.op = "job_orders" =>
        /\ companyEdges # {} =>
              /\ listing.jobs \subseteq companyEdges
              /\ ~listing.heuristic
        /\ listing.heuristic => companyEdges = {}

\* ------------------------------------------- properties: candidate identity

\* C19: every candidate a listing returns is identified by the application
\* object of the edge it came from: its id is that application's id, never
\* the id of the linked contact, with or without a linked contact.
C19_IdIsApplicationId ==
    last.op = "list_candidates" =>
        \A c \in last.cands :
            /\ c.id = c.application_id
            /\ c.id # ContactOf(c.application_id)

\* ------------------------------------------- properties: candidate detail

\* C20: GET /candidates/{id} answers 404 when the CRM has neither an
\* application nor a contact with the id, a 5xx status when the CRM call
\* fails, and never 200 with data that does not come from the CRM record of
\* that id.
C20_NotFoundAndFailure ==
    (detail.op = "get_candidate" /\ ~detail.env.demo) =>
        /\ (/\ detail.id \notin appIds /\ detail.id \notin contactIds
            /\ detail.env.appUp /\ detail.env.contactUp)
               => detail.status = 404
        /\ (~detail.env.appUp /\ ~detail.env.contactUp) => detail.status >= 500
        /\ detail.status = 200 =>
               /\ detail.source \in {"application", "contact"}
               /\ detail.bodyId = detail.id

\* ------------------------------------- properties: candidate-action route

C21_WitnessMissing ==
    /\ act.op = "candidate_action" /\ act.body = "object"
    /\ act.action = Missing /\ act.status = 400 /\ ~act.called

\* ------------------------------------------------- properties: scorecards

\* C22: saving a scorecard is append-only: a save that succeeds adds exactly
\* one assessment record, keyed by the candidate and the caller's company,
\* and no operation changes or removes a record there is; so n successful
\* saves for a candidate leave n records for it.
C22_AppendOnly ==
    [][/\ \A k \in AssessmentKeys : assessments'[k] >= assessments[k]
       /\ \A k \in AssessmentKeys :
              assessments'[k] # assessments[k] =>
                  /\ score'.op = "save_scorecard" /\ score'.created
                  /\ k = <<score'.candidate, score'.company>>
                  /\ assessments'[k] = assessments[k] + 1
       /\ (score'.op = "save_scorecard" /\ score'.created) =>
              AssessmentsOf(assessments', score'.candidate)
                  = AssessmentsOf(assessments, score'.candidate) + 1]_vars

\* C22 witness: a second record for a candidate that already had one from
\* the same company has been created.
C22_Witness ==
    /\ score.op = "save_scorecard" /\ score.created
    /\ assessments[<<score.candidate, score.company>>] >= 2

\* C30: the scorecard route reports success exactly when the assessment
\* record was persisted, also when the decision's follow-up call fails.
C30_SuccessIffPersisted ==
    score.op = "save_scorecard" => (score.created <=> score.status = 200)

\* ------------------------------------------- properties: waiting on the CRM

\* C23: every outbound CRM call carries the bounded timeout, so a handler
\* blocked on the CRM eventually answers, also when the CRM never replies.
C23_NoHandlerWaitsForever ==
    (wait.site # "none") ~> (wait.status # 0)

\* ---------------------------------------- properties: concurrent updates

\* C24: when two concurrent update_association_label calls on one edge with
\* different labels have both returned success, the edge exists, carries
\* every label a call reported adding, and carries at most one terminal
\* label.
C24_NoLostUpdate ==
    (\A p \in Procs : proc[p].pc = "done") =>
        /\ edge.exists
        /\ \A p \in Procs : proc[p].updated => proc[p].label \in edge.labels
        /\ Cardinality(edge.labels \cap TerminalLabels) <= 1

\* ------------------------------------- properties: label update atomicity

\* C26: update_association_label is failure-atomic for the edge: when the
\* call raises, the edge of the application and the job order still exists
\* with the labels it had before the call.
C26_FailureAtomic ==
    [][(last'.op = "route_update" /\ last'.status = 500) =>
           /\ linked' = linked
           /\ labels' = labels]_vars

\* C27: a successful update_association_label that adds a label keeps every
\* label the edge had: the recreated edge carries the previous labels plus
\* the new one, so an application that was Recommended is still among the
\* applications get_candidates_for_job_order lists.
C27_LabelsKept ==
    [][(IsLabelUpdate(last') /\ last'.updated) =>
           /\ last'.app \in linked'
           /\ labels'[last'.app] = labels[last'.app] \cup {last'.label}
           /\ \A a \in Apps : a \notin {last'.app} => labels'[a] = labels[a]
           /\ HasRecommendedLabel(last'.app)
                  => last'.app \in {a \in linked' : Recommended \in labels'[a]}]_vars

\* C27 witness: a decision label has been added to an edge that was, and
\* still is, Recommended.
C27_Witness ==
    /\ IsLabelUpdate(last) /\ last.updated
    /\ last.label \in TerminalLabels
    /\ {Recommended, last.label} \subseteq labels[last.app]
    /\ last.app \in RecommendedApplications

\* ------------------------------------------- properties: provision cap

\* C25: after any sequence of provision uploads, also ones during which the
\* CRM count lookup fails, the provision documents stored for the company
\* and category never exceed 5.
C25_CapNeverExceeded == provisions <= MaxPerCategory

\* ------------------------------------------- properties: login password

\* A password that is the credential of no account: the only credentials
\* the source holds are those of demo_users (server.py:1752-1760).
WrongPassword(r) ==
    r.password # "" /\ r.password \notin {DemoPassword(e) : e \in DemoEmails}

\* C29: login issues a token only when the password matches the account's
\* credential: for an allow-listed email a request with a wrong password
\* never receives a token, on the demo path and on the CRM-contact path.
C29_WrongPasswordNoToken ==
    (/\ resp.route = "login" /\ resp.email \in resp.allowList
     /\ WrongPassword(resp))
        => resp.issued = NoToken /\ resp.status # 200

\* ------------------------------------------- properties: company details

\* C28: GET /companies/{company_id} returns company data only when
\* company_id equals the company_id claim of the caller's token; for any
\* other company_id it answers 403 and makes no CRM call.
C28_OwnCompanyOnly ==
    [][companyResp'.op = "get_company" =>
           /\ companyResp'.data # "" =>
                  /\ companyResp'.path = companyResp'.caller.company_id
                  /\ companyResp'.data = companyResp'.path
           /\ companyResp'.path # companyResp'.caller.company_id =>
                  /\ companyResp'.status = 403
                  /\ companyResp'.data = ""
                  /\ outbound' = outbound]_vars

\* C28 witness: a caller asking for another account's company has been
\* answered 403.
C28_Witness ==
    /\ companyResp.op = "get_company"
    /\ companyResp.path \in {c.company_id : c \in Callers}
    /\ companyResp.path # companyResp.caller.company_id
    /\ companyResp.status = 403

====
